---- MODULE Spec2Model ----
(***************************************************************************)
(* Website generation backend: the LangGraph workflow (planning,           *)
(* image_description, image_generation, html_generation, file_storage),    *)
(* the plan-parsing ladder of planning_node and the streaming driver       *)
(* generate_website.event_stream; the image download of call_dalle and    *)
(* the joins of the image stages; WebsiteUpdater.forward; the edit_html    *)
(* endpoint; WebsiteFileManager.save_complete_website.                     *)
(*                                                                         *)
(* Texts are sequences of tokens.  The tokens that matter to the parsing   *)
(* code are the JSON punctuation, the double quote "q", the space " ",     *)
(* the markdown fence of three backticks "fence", the words "json" and     *)
(* "pages" and the JSON literal "null"; any other token is an opaque word. *)
(***************************************************************************)
EXTENDS Integers, Sequences, FiniteSets, TLC

VARIABLES
  planner,    \* the planner gateway's answer to this request: [raises, text]
  state,      \* the WorkflowState held by the checkpointer for the run
  prev,       \* the WorkflowState the last stage was called with
  stage_env,  \* what the gateways answered to the last stage, by section or page
  pc,         \* position of event_stream: "stream", "final", "done" (or a stage call)
  next_node,  \* the node the graph runs next
  events,     \* the events event_stream has sent, in order
  ran,        \* the stage bodies that have run, in order
  clock,      \* int(time.time()): the wall clock in whole seconds
  uploads,    \* the files of the uploads directory: filename -> what was written
  tasks,      \* the tasks of the image stages that are in flight: task id -> record
  call,       \* the arguments and the environment of the function call under study
  result,     \* what that call returned or raised
  checkpoints, \* the MemorySaver of the compiled workflow: thread id -> latest state
  limiter,    \* the RateLimiter object: its settings, buckets, last cleanup and lock
  reference   \* the record of the limiter's calls, kept for the properties

image_vars == <<clock, uploads, tasks>>
call_vars == <<call, result>>

store_vars == <<checkpoints, limiter, reference>>

vars == <<planner, state, prev, stage_env, pc, next_node, events, ran, clock, uploads, tasks,
          call, result, checkpoints, limiter, reference>>

\* no image task has been started
ImagesIdle == clock = 0 /\ uploads = <<>> /\ tasks = <<>>

\* no function call is under study
CallIdle == call = <<>> /\ result = <<>>

\* no checkpoint has been written and no rate limiter exists
StoresIdle == checkpoints = <<>> /\ limiter = <<>> /\ reference = <<>>

(***************************************************************************)
(* Bounds of the model.                                                    *)
(***************************************************************************)
MaxGarbageLen == 3
MaxPages == 2

(***************************************************************************)
(* JSON values (what json.loads returns).  A value is a record with a tag  *)
(* t, the content s of a string and the members kids of an array or an     *)
(* object; object members are records [k, v] in insertion order.  Python's *)
(* None is JNull.                                                          *)
(***************************************************************************)
JNull == [t |-> "null", s |-> <<>>, kids |-> <<>>]
JTrue == [t |-> "true", s |-> <<>>, kids |-> <<>>]
JFalse == [t |-> "false", s |-> <<>>, kids |-> <<>>]
JStr(s) == [t |-> "str", s |-> s, kids |-> <<>>]
JArr(items) == [t |-> "arr", s |-> <<>>, kids |-> items]
JObj(pairs) == [t |-> "obj", s |-> <<>>, kids |-> pairs]
KV(k, v) == [k |-> k, v |-> v]

\* isinstance(v, dict) / isinstance(v, list)
IsDict(v) == v.t = "obj"
IsList(v) == v.t = "arr"

\* key in d
HasKey(d, k) == \E i \in 1..Len(d.kids) : d.kids[i].k = k

\* d[key] for a key that is present
Get(d, k) == d.kids[CHOOSE i \in 1..Len(d.kids) : d.kids[i].k = k].v

\* d[key] = v on a dict under construction: a repeated key keeps its place
\* and takes the later value
SetKey(pairs, k, v) ==
  IF \E i \in 1..Len(pairs) : pairs[i].k = k
  THEN [i \in 1..Len(pairs) |-> IF pairs[i].k = k THEN KV(k, v) ELSE pairs[i]]
  ELSE Append(pairs, KV(k, v))

(***************************************************************************)
(* json.dumps with the default separators ", " and ": ".                   *)
(***************************************************************************)
RECURSIVE Dumps(_)
RECURSIVE DumpItems(_, _)
RECURSIVE DumpPairs(_, _)

DumpItems(items, i) ==
  IF i > Len(items) THEN <<>>
  ELSE (IF i > 1 THEN <<",", " ">> ELSE <<>>) \o Dumps(items[i]) \o DumpItems(items, i + 1)

DumpPairs(pairs, i) ==
  IF i > Len(pairs) THEN <<>>
  ELSE (IF i > 1 THEN <<",", " ">> ELSE <<>>)
       \o <<"q">> \o pairs[i].k \o <<"q", ":", " ">> \o Dumps(pairs[i].v)
       \o DumpPairs(pairs, i + 1)

Dumps(v) ==
  CASE v.t = "null" -> <<"null">>
    [] v.t = "true" -> <<"true">>
    [] v.t = "false" -> <<"false">>
    [] v.t = "str" -> <<"q">> \o v.s \o <<"q">>
    [] v.t = "arr" -> <<"[">> \o DumpItems(v.kids, 1) \o <<"]">>
    [] OTHER -> <<"{">> \o DumpPairs(v.kids, 1) \o <<"}">>

(***************************************************************************)
(* json.loads: the recursive-descent scanner of the json module.  A parse  *)
(* result is [ok, v, next]; ok = FALSE stands for json.JSONDecodeError.    *)
(***************************************************************************)
At(t, i) == IF i \in 1..Len(t) THEN t[i] ELSE "EOF"

ParseFail == [ok |-> FALSE, v |-> JNull, next |-> 0]
ParseOk(v, n) == [ok |-> TRUE, v |-> v, next |-> n]

RECURSIVE SkipWs(_, _)
SkipWs(t, i) == IF At(t, i) = " " THEN SkipWs(t, i + 1) ELSE i

\* the closing quote of the string literal opened at i
CloseQuote(t, i) ==
  IF \E j \in (i + 1)..Len(t) : t[j] = "q"
  THEN CHOOSE j \in (i + 1)..Len(t) : t[j] = "q" /\ \A m \in (i + 1)..(j - 1) : t[m] # "q"
  ELSE 0

RECURSIVE ParseValue(_, _)
RECURSIVE ParseMembers(_, _, _)
RECURSIVE ParseItems(_, _, _)

ParseValue(t, i) ==
  CASE At(t, i) = "null" -> ParseOk(JNull, i + 1)
    [] At(t, i) = "true" -> ParseOk(JTrue, i + 1)
    [] At(t, i) = "false" -> ParseOk(JFalse, i + 1)
    [] At(t, i) = "q" ->
         LET j == CloseQuote(t, i)
         IN IF j = 0 THEN ParseFail ELSE ParseOk(JStr(SubSeq(t, i + 1, j - 1)), j + 1)
    [] At(t, i) = "[" ->
         LET j == SkipWs(t, i + 1)
         IN IF At(t, j) = "]" THEN ParseOk(JArr(<<>>), j + 1) ELSE ParseItems(t, j, <<>>)
    [] At(t, i) = "{" ->
         LET j == SkipWs(t, i + 1)
         IN IF At(t, j) = "}" THEN ParseOk(JObj(<<>>), j + 1)
            ELSE IF At(t, j) = "q" THEN ParseMembers(t, j, <<>>)
            ELSE ParseFail
    [] OTHER -> ParseFail

\* at i: the value of the next array item
ParseItems(t, i, acc) ==
  LET r == ParseValue(t, i)
  IN IF ~r.ok THEN ParseFail
     ELSE LET j == SkipWs(t, r.next)
              items == Append(acc, r.v)
          IN IF At(t, j) = "]" THEN ParseOk(JArr(items), j + 1)
             ELSE IF At(t, j) = "," THEN ParseItems(t, SkipWs(t, j + 1), items)
             ELSE ParseFail

\* at i: the opening quote of the next member's key
ParseMembers(t, i, acc) ==
  LET c == CloseQuote(t, i)
  IN IF c = 0 THEN ParseFail
     ELSE LET key == SubSeq(t, i + 1, c - 1)
              j == SkipWs(t, c + 1)
          IN IF At(t, j) # ":" THEN ParseFail
             ELSE LET r == ParseValue(t, SkipWs(t, j + 1))
                  IN IF ~r.ok THEN ParseFail
                     ELSE LET m == SkipWs(t, r.next)
                              pairs == SetKey(acc, key, r.v)
                          IN IF At(t, m) = "}" THEN ParseOk(JObj(pairs), m + 1)
                             ELSE IF At(t, m) = ","
                                  THEN LET n == SkipWs(t, m + 1)
                                       IN IF At(t, n) = "q" THEN ParseMembers(t, n, pairs)
                                          ELSE ParseFail
                             ELSE ParseFail

\* json.loads(t): one value, surrounded by whitespace only
Loads(t) ==
  LET r == ParseValue(t, SkipWs(t, 1))
  IN IF r.ok /\ SkipWs(t, r.next) = Len(t) + 1 THEN r ELSE ParseFail

(***************************************************************************)
(* String operations used by planning_node: the substring test, split,     *)
(* strip and the search of the regular expression                          *)
(*   \{[^{}]*"pages"[^{}]*\}|\{.*"pages".*\}      (re.DOTALL).             *)
(***************************************************************************)
FENCE == <<"fence">>
FENCE_JSON == <<"fence", "json">>
QPAGES == <<"q", "pages", "q">>

OccursAt(t, pat, i) == i >= 1 /\ i + Len(pat) - 1 <= Len(t) /\ SubSeq(t, i, i + Len(pat) - 1) = pat

\* t.find(pat), 1-based; 0 when pat does not occur
Find(t, pat) ==
  IF \E i \in 1..Len(t) : OccursAt(t, pat, i)
  THEN CHOOSE i \in 1..Len(t) : OccursAt(t, pat, i) /\ \A j \in 1..(i - 1) : ~OccursAt(t, pat, j)
  ELSE 0

\* pat in t
Contains(t, pat) == Find(t, pat) # 0

\* t.split(pat): the list of the parts between the occurrences of pat
RECURSIVE Split(_, _)
Split(t, pat) ==
  LET i == Find(t, pat)
  IN IF i = 0 THEN <<t>>
     ELSE <<SubSeq(t, 1, i - 1)>> \o Split(SubSeq(t, i + Len(pat), Len(t)), pat)

\* t.strip()
RECURSIVE Strip(_)
Strip(t) ==
  IF t = <<>> THEN t
  ELSE IF Head(t) = " " THEN Strip(Tail(t))
  ELSE IF t[Len(t)] = " " THEN Strip(SubSeq(t, 1, Len(t) - 1))
  ELSE t

IsBrace(c) == c = "{" \/ c = "}"

\* first alternative at i: "{", no brace up to the next "}", "pages" between
Alt1End(t, i) ==
  IF At(t, i) = "{" /\ \E j \in (i + 1)..Len(t) : IsBrace(t[j])
  THEN LET j == CHOOSE j \in (i + 1)..Len(t) :
                  IsBrace(t[j]) /\ \A m \in (i + 1)..(j - 1) : ~IsBrace(t[m])
       IN IF t[j] = "}" /\ \E p \in (i + 1)..(j - 3) : OccursAt(t, QPAGES, p) THEN j ELSE 0
  ELSE 0

\* second alternative at i: "{", anything, "pages", anything, the last "}"
Alt2End(t, i) ==
  IF At(t, i) = "{" /\ \E j \in (i + 1)..Len(t) : t[j] = "}"
  THEN LET j == CHOOSE j \in (i + 1)..Len(t) : t[j] = "}" /\ \A m \in (j + 1)..Len(t) : t[m] # "}"
       IN IF \E p \in (i + 1)..(j - 3) : OccursAt(t, QPAGES, p) THEN j ELSE 0
  ELSE 0

MatchEnd(t, i) == IF Alt1End(t, i) # 0 THEN Alt1End(t, i) ELSE Alt2End(t, i)

\* re.search(...): the leftmost match, the first alternative preferred
RegexSearch(t) ==
  IF \E i \in 1..Len(t) : MatchEnd(t, i) # 0
  THEN LET i == CHOOSE i \in 1..Len(t) : MatchEnd(t, i) # 0 /\ \A j \in 1..(i - 1) : MatchEnd(t, j) = 0
       IN [found |-> TRUE, group |-> SubSeq(t, i, MatchEnd(t, i))]
  ELSE [found |-> FALSE, group |-> <<>>]

(***************************************************************************)
(* planning_node, strategies 1 to 4.                                       *)
(***************************************************************************)
Word(w) == JStr(<<w>>)

PageSpec(name, purpose, sections) ==
  JObj(<<KV(<<"name">>, Word(name)), KV(<<"purpose">>, Word(purpose)),
         KV(<<"sections">>, JArr(sections))>>)

\* a default plan without its contact page
FallbackPlan_two_pages ==
  JObj(<<KV(<<"pages">>, JArr(<<
           PageSpec("home", "Landing page", <<Word("hero"), Word("features"), Word("cta")>>),
           PageSpec("about", "About page", <<Word("story"), Word("team")>>)>>)),
         KV(<<"image_sections">>, JArr(<<Word("hero"), Word("features"), Word("testimonials")>>)),
         KV(<<"navigation">>, JArr(<<Word("home"), Word("about")>>))>>)

FallbackPlan ==
  JObj(<<KV(<<"pages">>, JArr(<<
           PageSpec("home", "Landing page", <<Word("hero"), Word("features"), Word("cta")>>),
           PageSpec("about", "About page", <<Word("story"), Word("team")>>),
           PageSpec("contact", "Contact page", <<Word("form"), Word("info")>>)>>)),
         KV(<<"styling">>, JObj(<<KV(<<"theme">>, Word("modern")),
                                  KV(<<"primary_color">>, Word("#3B82F6")),
                                  KV(<<"secondary_color">>, Word("#64748B")),
                                  KV(<<"font_family">>, Word("sans-serif")),
                                  KV(<<"design_style">>, Word("clean and professional"))>>)),
         KV(<<"image_sections">>, JArr(<<Word("hero"), Word("features"), Word("testimonials")>>)),
         KV(<<"navigation">>, JArr(<<Word("home"), Word("about"), Word("contact")>>))>>)

\* the text handed to json.loads of strategy 2
FenceExtract(plan_json) ==
  IF Contains(plan_json, FENCE_JSON)
  THEN Strip(Split(Split(plan_json, FENCE_JSON)[2], FENCE)[1])
  ELSE IF Contains(plan_json, FENCE)
  THEN Strip(Split(Split(plan_json, FENCE)[2], FENCE)[1])
  ELSE plan_json

\* strategies 3 and 4 on the text left by strategy 2
RegexOrFallback(plan_json) ==
  LET m == RegexSearch(plan_json)
      r3 == IF m.found THEN Loads(m.group) ELSE ParseFail
  IN IF r3.ok THEN [plan |-> r3.v, strategy |-> 3]
     ELSE [plan |-> FallbackPlan, strategy |-> 4]

\* the plan and the strategy that produced it
ParsePlan(plan_json) ==
  LET r1 == Loads(plan_json)
  IN IF r1.ok THEN [plan |-> r1.v, strategy |-> 1]
     ELSE LET extracted == FenceExtract(plan_json)
              r2 == Loads(extracted)
          IN IF r2.ok THEN [plan |-> r2.v, strategy |-> 2]
             ELSE RegexOrFallback(extracted)

\* validation without the check for an empty pages list
ValidatePlan_accepts_empty(plan) ==
  IF ~IsDict(plan) THEN "Plan must be a dictionary"
  ELSE IF ~HasKey(plan, <<"pages">>) \/ ~IsList(Get(plan, <<"pages">>))
  THEN "Plan must contain 'pages' array"
  ELSE ""

\* "" when the plan passes validation, else the ValueError message
ValidatePlan(plan) ==
  IF ~IsDict(plan) THEN "Plan must be a dictionary"
  ELSE IF ~HasKey(plan, <<"pages">>) \/ ~IsList(Get(plan, <<"pages">>))
  THEN "Plan must contain 'pages' array"
  ELSE IF Len(Get(plan, <<"pages">>).kids) = 0 THEN "Plan must contain at least one page"
  ELSE ""

(***************************************************************************)
(* WorkflowState.  An Optional[Dict] field is [none, items]: none = TRUE   *)
(* is Python's None, items are the [k, v] entries in insertion order.      *)
(* error and progress_message are tuples of message parts; error = <<>>    *)
(* is None.  plan = JNull is None.  The request carries no template, so    *)
(* template_styling and css_theme stay None and are left out.              *)
(***************************************************************************)
NoneDict == [none |-> TRUE, items |-> <<>>]
Dict(items) == [none |-> FALSE, items |-> items]
Keys(d) == {d.items[i].k : i \in 1..Len(d.items)}
NoneText == <<"None">>

Sections == <<"hero", "features", "testimonials">>
SectionSet == {Sections[i] : i \in 1..Len(Sections)}

initial_state ==
  [description |-> "description", plan |-> JNull, plan_json |-> NoneText,
   image_descriptions |-> NoneDict, image_urls |-> NoneDict, pages |-> NoneDict,
   folder_path |-> "None", saved_files |-> NoneDict,
   current_step |-> "planning", status |-> "in_progress", error |-> <<>>,
   progress |-> 0, progress_message |-> <<"Starting website generation...">>]

\* the except branch without its status assignment
StageFailed_keeps_status(st, what, why, progress) ==
  [st EXCEPT !.current_step = "failed",
             !.error = <<what, why>>, !.progress = progress,
             !.progress_message = <<"failed", what, why>>]

\* what a call leaves behind when the exception escapes the stage
Escaped == [raised |-> TRUE]

\* an except branch that raises again
StageFailed_reraises(st, what, why, progress) == Escaped

\* an except branch that builds its record from a fresh state
StageFailed_from_scratch(st, what, why, progress) ==
  [initial_state EXCEPT !.current_step = "failed", !.status = "failed",
                        !.error = <<what, why>>, !.progress = progress,
                        !.progress_message = <<"failed", what, why>>]

\* the except branch shared by the first four stages
StageFailed(st, what, why, progress) ==
  [st EXCEPT !.current_step = "failed", !.status = "failed",
             !.error = <<what, why>>, !.progress = progress,
             !.progress_message = <<"failed", what, why>>]

(***************************************************************************)
(* planning_node                                                           *)
(***************************************************************************)
PlanningFailedProgress == 0
PlanningProgress == 25

planning_node(st, response) ==
  IF response.raises THEN StageFailed(st, "Planning failed", "gateway error", PlanningFailedProgress)
  ELSE LET plan == ParsePlan(response.text).plan
           invalid == ValidatePlan(plan)
       IN IF invalid # "" THEN StageFailed(st, "Planning failed", invalid, PlanningFailedProgress)
          ELSE [st EXCEPT !.plan = plan, !.plan_json = Dumps(plan),
                          !.current_step = "image_description", !.status = "in_progress",
                          !.progress = PlanningProgress,
                          !.progress_message = <<"Planning complete">>]

(***************************************************************************)
(* Reading the plan the way the later stages do.                           *)
(***************************************************************************)
\* for x in v: [raises, items]
IterItems(v) ==
  CASE v.t = "arr" -> [raises |-> FALSE, items |-> v.kids]
    [] v.t = "str" -> [raises |-> FALSE, items |-> [i \in 1..Len(v.s) |-> JStr(<<v.s[i]>>)]]
    [] v.t = "obj" -> [raises |-> FALSE, items |-> [i \in 1..Len(v.kids) |-> JStr(v.kids[i].k)]]
    [] OTHER -> [raises |-> TRUE, items |-> <<>>]

\* plan.get("pages", [])
PlanPages(plan) == IF HasKey(plan, <<"pages">>) THEN Get(plan, <<"pages">>) ELSE JArr(<<>>)

\* section in page.get("sections", []): "yes", "no" or "raise"
PageHasSection(page, section) ==
  IF ~IsDict(page) THEN "raise"
  ELSE IF ~HasKey(page, <<"sections">>) THEN "no"
  ELSE LET secs == Get(page, <<"sections">>)
       IN CASE secs.t = "arr" ->
                 IF \E i \in 1..Len(secs.kids) : secs.kids[i] = Word(section) THEN "yes" ELSE "no"
            [] secs.t = "str" -> IF Contains(secs.s, <<section>>) THEN "yes" ELSE "no"
            [] secs.t = "obj" -> IF HasKey(secs, <<section>>) THEN "yes" ELSE "no"
            [] OTHER -> "raise"

\* the search for the page that owns a section: TRUE when it raises
RECURSIVE OwnerLookupRaises(_, _, _)
OwnerLookupRaises(items, i, section) ==
  IF i > Len(items) THEN FALSE
  ELSE LET has == PageHasSection(items[i], section)
       IN IF has = "raise" THEN TRUE
          ELSE IF has = "yes" THEN ~HasKey(items[i], <<"name">>)
          ELSE OwnerLookupRaises(items, i + 1, section)

(***************************************************************************)
(* image_description_node.  outcomes[i] is what the description gateway    *)
(* did for Sections[i]: "ok" or "error".                                   *)
(***************************************************************************)
ImageDescriptionFailedProgress == 25
ImageDescriptionProgress == 40

\* a description stage that leaves a failed section without description
DescriptionFor_no_fallback(section, outcome) ==
  IF outcome = "ok" THEN <<"generated", section>> ELSE <<>>

DescriptionFor(section, outcome) ==
  IF outcome = "ok" THEN <<"generated", section>> ELSE <<"fallback", section>>

image_description_node(st, outcomes) ==
  LET plan == st.plan
      it == IF IsDict(plan) THEN IterItems(PlanPages(plan)) ELSE [raises |-> TRUE, items |-> <<>>]
      raises == it.raises \/ \E i \in 1..Len(Sections) : OwnerLookupRaises(it.items, 1, Sections[i])
  IN IF raises
     THEN StageFailed(st, "Image description generation failed", "exception",
                      ImageDescriptionFailedProgress)
     ELSE [st EXCEPT !.image_descriptions =
                        Dict([i \in 1..Len(Sections) |->
                                KV(Sections[i], DescriptionFor(Sections[i], outcomes[i]))]),
                     !.current_step = "image_generation",
                     !.progress = ImageDescriptionProgress,
                     !.progress_message = <<"Image descriptions ready">>]

(***************************************************************************)
(* image_generation_node.  outcomes[i] is what call_dalle did for the i-th *)
(* entry of image_descriptions: "ok" (a local URL) or "error" (raised).    *)
(***************************************************************************)
ImageGenerationFailedProgress == 40
ImageGenerationProgress == 65

\* a mapping that knows no section
static_images_placeholder(section) == "placeholder.png"

static_images(section) ==
  CASE section = "hero" -> "hero_1766668485.png"
    [] section = "features" -> "features_1766668478.png"
    [] section = "testimonials" -> "testimonials_1766668479.png"
    [] OTHER -> "placeholder.png"

ImageUrlFor(section, outcome) ==
  IF outcome = "ok" THEN <<"uploads", section, "generated">>
  ELSE <<"uploads", static_images(section)>>

image_generation_node(st, outcomes) ==
  IF st.image_descriptions.none
  THEN StageFailed(st, "Image generation failed", "exception", ImageGenerationFailedProgress)
  ELSE LET descs == st.image_descriptions.items
       IN [st EXCEPT !.image_urls =
                        Dict([i \in 1..Len(descs) |->
                                KV(descs[i].k, ImageUrlFor(descs[i].k, outcomes[i]))]),
                     !.current_step = "html_generation",
                     !.progress = ImageGenerationProgress,
                     !.progress_message = <<"images generated successfully">>]

(***************************************************************************)
(* html_generation_node.  outcomes[i] is what the HTML gateway returned    *)
(* for the i-th page: "raise", "short" (under 100 characters), "invalid"   *)
(* (no doctype or html token), "ok_style" or "ok_plain" (a document with   *)
(* or without a style block).                                              *)
(***************************************************************************)
HtmlGenerationFailedProgress == 65
HtmlGenerationProgress == 90

HtmlKinds == {"raise", "short", "invalid", "ok_style", "ok_plain"}

HtmlFailure(kind) ==
  CASE kind = "raise" -> "gateway error"
    [] kind = "short" -> "Response too short or empty"
    [] kind = "invalid" -> "Invalid HTML structure"
    [] OTHER -> ""

PageOutput(kind) ==
  [html |-> "document", css |-> IF kind = "ok_style" THEN "css" ELSE ""]

\* a loop that stops after the first page
GeneratePages_first_only(all_pages, i, outcomes, is_single_page, out) ==
  IF all_pages = <<>> THEN [why |-> "", out |-> out]
  ELSE IF HtmlFailure(outcomes[1]) # "" THEN [why |-> HtmlFailure(outcomes[1]), out |-> out]
  ELSE [why |-> "", out |-> SetKey(out, Get(all_pages[1], <<"name">>), PageOutput(outcomes[1]))]

\* the loop over all_pages: [why, out]; why # "" when the loop raised
RECURSIVE GeneratePages(_, _, _, _, _)
GeneratePages(all_pages, i, outcomes, is_single_page, out) ==
  IF i > Len(all_pages) THEN [why |-> "", out |-> out]
  ELSE LET page == all_pages[i]
           name == Get(page, <<"name">>)
           sections == IF HasKey(page, <<"sections">>) THEN Get(page, <<"sections">>) ELSE JArr(<<>>)
       IN IF HtmlFailure(outcomes[i]) # "" THEN [why |-> HtmlFailure(outcomes[i]), out |-> out]
          ELSE IF is_single_page /\ IterItems(sections).raises THEN [why |-> "exception", out |-> out]
          ELSE IF name.t \in {"arr", "obj"} THEN [why |-> "exception", out |-> out]
          ELSE GeneratePages(all_pages, i + 1, outcomes, is_single_page,
                             SetKey(out, name, PageOutput(outcomes[i])))

\* TRUE when the stage raises before the first gateway call
HtmlSetupRaises(st) ==
  \/ st.image_urls.none
  \/ ~IsDict(st.plan)
  \/ IterItems(PlanPages(st.plan)).raises
  \/ LET items == IterItems(PlanPages(st.plan)).items
     IN \E i \in 1..Len(items) : ~IsDict(items[i]) \/ ~HasKey(items[i], <<"name">>)

html_generation_node(st, outcomes) ==
  IF HtmlSetupRaises(st)
  THEN StageFailed(st, "HTML generation failed", "exception", HtmlGenerationFailedProgress)
  ELSE LET all_pages == IterItems(PlanPages(st.plan)).items
           r == GeneratePages(all_pages, 1, outcomes, Len(all_pages) = 1, <<>>)
       IN IF r.why # ""
          THEN StageFailed(st, "HTML generation failed", r.why, HtmlGenerationFailedProgress)
          ELSE [st EXCEPT !.pages = Dict(r.out),
                          !.current_step = "file_storage", !.status = "in_progress",
                          !.progress = HtmlGenerationProgress,
                          !.progress_message = <<"HTML generated, preparing to save files...">>]

(***************************************************************************)
(* file_storage_node.  outcome is what the file system did: "ok" or        *)
(* "error" (an OSError out of save_complete_website).                      *)
(***************************************************************************)
FileStorageProgress == 100

\* TRUE when the body raises whatever the file system does
StorageRaises(st) ==
  \/ st.pages.none
  \/ st.pages.items = <<>>
  \/ IsDict(st.plan) /\ HasKey(st.plan, <<"name">>) /\ Get(st.plan, <<"name">>).t # "str"

file_storage_node(st, outcome) ==
  IF StorageRaises(st) \/ outcome = "error"
  THEN [st EXCEPT !.current_step = "complete", !.status = "completed",
                  !.progress = FileStorageProgress,
                  !.progress_message = <<"HTML generated but file storage failed">>,
                  !.error = <<"File storage warning", "exception">>]
  ELSE [st EXCEPT !.folder_path = "folder",
                  !.saved_files = Dict([i \in 1..Len(st.pages.items) |->
                                          KV(st.pages.items[i].k, <<"folder", "html">>)]),
                  !.current_step = "complete", !.status = "completed",
                  !.progress = FileStorageProgress,
                  !.progress_message = <<"Website generation complete">>]

(***************************************************************************)
(* The compiled graph (create_website_workflow) and the streaming driver   *)
(* generate_website.event_stream.                                          *)
(***************************************************************************)
Nodes == {"planning", "image_description", "image_generation", "html_generation", "file_storage"}

\* the graph with the image_generation edge left out
Edges_skip_image_generation ==
  [n \in Nodes \cup {"START"} |->
     CASE n = "START" -> "planning"
       [] n = "planning" -> "image_description"
       [] n = "image_description" -> "html_generation"
       [] n = "image_generation" -> "html_generation"
       [] n = "html_generation" -> "file_storage"
       [] OTHER -> "END"]

\* workflow.add_edge(a, b)
Edges ==
  [n \in Nodes \cup {"START"} |->
     CASE n = "START" -> "planning"
       [] n = "planning" -> "image_description"
       [] n = "image_description" -> "image_generation"
       [] n = "image_generation" -> "html_generation"
       [] n = "html_generation" -> "file_storage"
       [] OTHER -> "END"]

\* the nodes declared async def; the driver iterates the synchronous stream
CoroutineNodes == {"image_description", "image_generation"}

\* an event as sent: keys are the keys of its JSON object, data is <<>> or
\* one record
StageEvent(node_state) ==
  [kind |-> "stage", keys |-> {"step", "status", "progress", "message", "error"},
   step |-> node_state.current_step, status |-> node_state.status,
   progress |-> node_state.progress, message |-> node_state.progress_message,
   error |-> node_state.error, data |-> <<>>]

\* a final event that leaves the persisted files out
ResultEvent_without_files(final_state) ==
  [kind |-> "result", keys |-> {"step", "status", "progress", "message", "data"},
   step |-> "complete", status |-> "completed", progress |-> 100,
   message |-> <<"Website generation complete">>, error |-> <<>>,
   data |-> <<[pages |-> final_state.pages, image_urls |-> final_state.image_urls,
               plan |-> final_state.plan, folder_path |-> "None",
               saved_files |-> NoneDict]>>]

ResultEvent(final_state) ==
  [kind |-> "result", keys |-> {"step", "status", "progress", "message", "data"},
   step |-> "complete", status |-> "completed", progress |-> 100,
   message |-> <<"Website generation complete">>, error |-> <<>>,
   data |-> <<[pages |-> final_state.pages, image_urls |-> final_state.image_urls,
               plan |-> final_state.plan, folder_path |-> final_state.folder_path,
               saved_files |-> final_state.saved_files]>>]

NotCompletedEvent(final_state) ==
  [kind |-> "not_completed", keys |-> {"step", "status", "progress", "message", "error"},
   step |-> "failed", status |-> "failed", progress |-> final_state.progress,
   message |-> final_state.error, error |-> final_state.error, data |-> <<>>]

ExceptionEvent ==
  [kind |-> "exception", keys |-> {"step", "status", "progress", "message", "error"},
   step |-> "failed", status |-> "failed", progress |-> 0,
   message |-> <<"Error", "exception">>, error |-> <<"exception">>, data |-> <<>>]

\* the loop without its check for errors
StreamReturns_never(node_state) == FALSE

\* if node_state.get("status") == "failed": return
StreamReturns(node_state) == node_state.status = "failed"

\* one iteration of the for loop over website_workflow.stream: the graph
\* runs node, the checkpointer keeps its state, the driver sends the event
StreamStep(node, node_state, env) ==
  /\ pc = "stream"
  /\ next_node = node
  /\ prev' = state
  /\ state' = node_state
  /\ stage_env' = env
  /\ ran' = Append(ran, node)
  /\ events' = Append(events, StageEvent(node_state))
  /\ next_node' = Edges[node]
  /\ pc' = IF StreamReturns(node_state) THEN "done"
           ELSE IF Edges[node] = "END" THEN "final" ELSE "stream"
  /\ UNCHANGED <<planner, image_vars, call_vars, store_vars>>

Outcomes(n, kinds) == [1..n -> kinds]

\* the outcomes as far as the stage looked at them
RECURSIVE UpToFailure(_, _)
UpToFailure(outcomes, i) ==
  IF i > Len(outcomes) THEN <<>>
  ELSE IF HtmlFailure(outcomes[i]) # "" THEN <<outcomes[i]>>
  ELSE <<outcomes[i]>> \o UpToFailure(outcomes, i + 1)

NumPages(st) ==
  IF HtmlSetupRaises(st) THEN 0 ELSE Len(IterItems(PlanPages(st.plan)).items)

NumDescriptions(st) == IF st.image_descriptions.none THEN 0 ELSE Len(st.image_descriptions.items)

StreamPlanning == StreamStep("planning", planning_node(state, planner), <<>>)

StreamImageDescription ==
  \E o \in Outcomes(Len(Sections), {"ok", "error"}) :
    StreamStep("image_description", image_description_node(state, o), o)

StreamImageGeneration ==
  \E o \in Outcomes(NumDescriptions(state), {"ok", "error"}) :
    StreamStep("image_generation", image_generation_node(state, o), o)

StreamHtmlGeneration ==
  \E o \in Outcomes(NumPages(state), HtmlKinds) :
    StreamStep("html_generation", html_generation_node(state, o), UpToFailure(o, 1))

StreamFileStorage ==
  \E o \in {"ok", "error"} :
    StreamStep("file_storage", file_storage_node(state, o), <<o>>)

\* the synchronous stream is asked to run a coroutine node; whether the
\* graph library awaits it or raises is left open, and this is the case
\* where it raises: the except branch of event_stream reports it
StreamRaises ==
  /\ pc = "stream"
  /\ next_node \in CoroutineNodes
  /\ events' = Append(events, ExceptionEvent)
  /\ pc' = "done"
  /\ UNCHANGED <<planner, state, prev, stage_env, next_node, ran, image_vars, call_vars, store_vars>>

\* after the loop: final_state = website_workflow.get_state(thread_id).values
FinalEvent ==
  /\ pc = "final"
  /\ events' = Append(events, IF state.status = "completed" THEN ResultEvent(state)
                              ELSE NotCompletedEvent(state))
  /\ pc' = "done"
  /\ UNCHANGED <<planner, state, prev, stage_env, next_node, ran, image_vars, call_vars, store_vars>>

(***************************************************************************)
(* Planner answers.  An answer is [raises, text, form, value]: form and    *)
(* value say how the text was built from a JSON value.                     *)
(***************************************************************************)
SeqsUpTo(S, n) == UNION {[1..k -> S] : k \in 0..n}
NonEmptySeqsUpTo(S, n) == UNION {[1..k -> S] : k \in 1..n}

PagesPlan(items) == JObj(<<KV(<<"pages">>, JArr(items))>>)

HomePage ==
  JObj(<<KV(<<"name">>, Word("home")),
         KV(<<"sections">>, JArr(<<Word("hero"), Word("features")>>))>>)
AboutPage == JObj(<<KV(<<"name">>, Word("about"))>>)
FencePage == JObj(<<KV(<<"name">>, JStr(<<"w", "fence", "w">>))>>)
NamelessPage == JObj(<<>>)
UnownedSectionPage == JObj(<<KV(<<"sections">>, JArr(<<Word("hero")>>))>>)
NullSectionsPage == JObj(<<KV(<<"name">>, Word("solo")), KV(<<"sections">>, JNull)>>)
TextPage == Word("w")

\* values that parse but are no plan
NotPlans ==
  {JNull, Word("w"), JArr(<<>>), JArr(<<HomePage>>), JObj(<<>>),
   JObj(<<KV(<<"name">>, Word("w"))>>),
   JObj(<<KV(<<"pages">>, JNull)>>), JObj(<<KV(<<"pages">>, Word("w"))>>),
   JObj(<<KV(<<"pages">>, JObj(<<>>))>>), PagesPlan(<<>>)}

JsonFenced(v) == <<"w", " ", "fence", "json", " ">> \o Dumps(v) \o <<" ", "fence", " ", "w">>
PlainFenced(v) == <<"w", " ", "fence", " ">> \o Dumps(v) \o <<" ", "fence">>
Embedded(v) == <<"w", " ">> \o Dumps(v) \o <<" ", "w">>
Truncations(v) == {SubSeq(Dumps(v), 1, k) : k \in 1..(Len(Dumps(v)) - 1)}

Answer(form, v, text) == [raises |-> FALSE, text |-> text, form |-> form, value |-> v]
GatewayError == [raises |-> TRUE, text |-> <<>>, form |-> "none", value |-> JNull]

AnswersFor(v) ==
  {Answer("raw", v, Dumps(v)), Answer("json_fence", v, JsonFenced(v)),
   Answer("fence", v, PlainFenced(v)), Answer("embedded", v, Embedded(v))}
  \cup {Answer("truncated", v, t) : t \in Truncations(v)}

GarbageTokens == {"{", "}", "q", "pages", "fence", "json", "null", "w"}
Garbage == {Answer("garbage", JNull, t) : t \in SeqsUpTo(GarbageTokens, MaxGarbageLen)}

ParsePages == {HomePage, AboutPage, FencePage, NamelessPage, TextPage}
ParsePlans == {PagesPlan(items) : items \in NonEmptySeqsUpTo(ParsePages, MaxPages)}
ParseAnswers == UNION {AnswersFor(v) : v \in ParsePlans \cup NotPlans} \cup Garbage

RunPages == {HomePage, AboutPage, NamelessPage, TextPage}
RunPlans ==
  {PagesPlan(items) : items \in NonEmptySeqsUpTo(RunPages, MaxPages)}
  \cup {PagesPlan(<<UnownedSectionPage>>), PagesPlan(<<NullSectionsPage>>)}
RunAnswers ==
  {Answer("raw", v, Dumps(v)) : v \in RunPlans}
  \cup {GatewayError, Answer("json_fence", PagesPlan(<<HomePage>>), JsonFenced(PagesPlan(<<HomePage>>))),
        Answer("garbage", JNull, <<"w">>), Answer("raw", JNull, Dumps(JNull)),
        Answer("embedded", PagesPlan(<<>>), Embedded(PagesPlan(<<>>)))}

(***************************************************************************)
(* Spec: one generate-website request, from the initial state of           *)
(* event_stream to its last event.                                         *)
(***************************************************************************)
Init ==
  /\ planner \in RunAnswers
  /\ state = initial_state
  /\ prev = initial_state
  /\ stage_env = <<>>
  /\ pc = "stream"
  /\ next_node = Edges["START"]
  /\ events = <<>>
  /\ ran = <<>>
  /\ ImagesIdle /\ CallIdle /\ StoresIdle

Next ==
  \/ StreamPlanning
  \/ StreamImageDescription
  \/ StreamImageGeneration
  \/ StreamHtmlGeneration
  \/ StreamFileStorage
  \/ StreamRaises
  \/ FinalEvent

Spec == Init /\ [][Next]_vars

(***************************************************************************)
(* SpecParse: planning_node applied to the initial state, for a larger     *)
(* set of planner answers.                                                 *)
(***************************************************************************)
InitParse ==
  /\ planner \in ParseAnswers
  /\ state = initial_state
  /\ prev = initial_state
  /\ stage_env = <<>>
  /\ pc = "call"
  /\ next_node = "planning"
  /\ events = <<>>
  /\ ran = <<>>
  /\ ImagesIdle /\ CallIdle /\ StoresIdle

\* a stage function called once on the current state
StageCall(node, node_state, env) ==
  /\ pc = "call"
  /\ next_node = node
  /\ prev' = state
  /\ state' = node_state
  /\ stage_env' = env
  /\ ran' = Append(ran, node)
  /\ pc' = "returned"
  /\ UNCHANGED <<planner, next_node, events, image_vars, call_vars, store_vars>>

CallPlanning == StageCall("planning", planning_node(state, planner), <<>>)

NextParse == CallPlanning

SpecParse == InitParse /\ [][NextParse]_vars

(***************************************************************************)
(* SpecStage: one stage function called on a WorkflowState, the way a unit *)
(* test of the stage calls it.  The input states are WorkflowState records *)
(* whose optional fields are None or filled and whose tracking fields are  *)
(* those of a run that has reached some stage or has failed at one.        *)
(***************************************************************************)
StagePlans ==
  {JNull, PagesPlan(<<HomePage>>), PagesPlan(<<HomePage, AboutPage>>),
   PagesPlan(<<TextPage>>), PagesPlan(<<NullSectionsPage>>),
   JObj(<<KV(<<"name">>, JArr(<<>>)), KV(<<"pages">>, JArr(<<AboutPage>>))>>)}

StageDescriptions ==
  {NoneDict,
   Dict([i \in 1..Len(Sections) |-> KV(Sections[i], DescriptionFor(Sections[i], "ok"))]),
   Dict(<<KV("hero", DescriptionFor("hero", "error")), KV("cta", <<"generated", "cta">>)>>)}

StageUrls ==
  {NoneDict, Dict([i \in 1..Len(Sections) |-> KV(Sections[i], ImageUrlFor(Sections[i], "ok"))])}

StagePages ==
  {NoneDict, Dict(<<>>), Dict(<<KV(Word("home"), PageOutput("ok_style"))>>)}

Tracking(step, status, progress, error) ==
  [current_step |-> step, status |-> status, progress |-> progress, error |-> error]

StageTrackings ==
  {Tracking("planning", "in_progress", 0, <<>>),
   Tracking("image_description", "in_progress", 25, <<>>),
   Tracking("image_generation", "in_progress", 40, <<>>),
   Tracking("html_generation", "in_progress", 65, <<>>),
   Tracking("file_storage", "in_progress", 90, <<>>)}
  \cup {Tracking("failed", "failed", p, <<"failed earlier", "exception">>) : p \in {0, 25, 40, 65}}

StageInputs ==
  {[initial_state EXCEPT !.plan = plan, !.image_descriptions = descs, !.image_urls = urls,
                         !.pages = pages, !.current_step = tr.current_step,
                         !.status = tr.status, !.progress = tr.progress, !.error = tr.error] :
     plan \in StagePlans, descs \in StageDescriptions, urls \in StageUrls,
     pages \in StagePages, tr \in StageTrackings}

StageAnswers ==
  {GatewayError, Answer("raw", PagesPlan(<<HomePage>>), Dumps(PagesPlan(<<HomePage>>))),
   Answer("raw", PagesPlan(<<>>), Dumps(PagesPlan(<<>>))), Answer("garbage", JNull, <<"w">>)}

InitStage ==
  /\ next_node \in Nodes
  /\ planner \in IF next_node = "planning" THEN StageAnswers ELSE {GatewayError}
  /\ state \in StageInputs
  /\ prev = initial_state
  /\ stage_env = <<>>
  /\ pc = "call"
  /\ events = <<>>
  /\ ran = <<>>
  /\ ImagesIdle /\ CallIdle /\ StoresIdle

CallImageDescription ==
  \E o \in Outcomes(Len(Sections), {"ok", "error"}) :
    StageCall("image_description", image_description_node(state, o), o)

CallImageGeneration ==
  \E o \in Outcomes(NumDescriptions(state), {"ok", "error"}) :
    StageCall("image_generation", image_generation_node(state, o), o)

CallHtmlGeneration ==
  \E o \in Outcomes(NumPages(state), HtmlKinds) :
    StageCall("html_generation", html_generation_node(state, o), UpToFailure(o, 1))

CallFileStorage ==
  \E o \in {"ok", "error"} :
    StageCall("file_storage", file_storage_node(state, o), <<o>>)

NextStage ==
  \/ CallPlanning
  \/ CallImageDescription
  \/ CallImageGeneration
  \/ CallHtmlGeneration
  \/ CallFileStorage

SpecStage == InitStage /\ [][NextStage]_vars

(***************************************************************************)
(* SpecImages: call_dalle tasks of concurrently executing runs.  A task is *)
(* one call_dalle(section, prompt) of one run.  A byte stream is           *)
(* [size, head]: its length and its leading bytes (at most 20 of them).    *)
(***************************************************************************)
MaxClock == 1

\* 10 * 1024 * 1024
MaxImageBytes == 10485760

PNG_SIGNATURE == <<137, 80, 78, 71, 13, 10, 26, 10>>
JPEG_SIGNATURE == <<255, 216, 255>>
GIF87A_SIGNATURE == <<71, 73, 70, 56, 55, 97>>
GIF89A_SIGNATURE == <<71, 73, 70, 56, 57, 97>>
RIFF == <<82, 73, 70, 70>>
WEBP == <<87, 69, 66, 80>>

\* image_bytes.startswith(signature)
StartsWith(head, signature) ==
  Len(head) >= Len(signature) /\ SubSeq(head, 1, Len(signature)) = signature

\* detected_format, "none" for None
DetectedFormat(head) ==
  IF StartsWith(head, PNG_SIGNATURE) THEN "PNG"
  ELSE IF StartsWith(head, JPEG_SIGNATURE) THEN "JPEG"
  ELSE IF StartsWith(head, GIF87A_SIGNATURE) \/ StartsWith(head, GIF89A_SIGNATURE) THEN "GIF"
  ELSE IF StartsWith(head, RIFF) /\ Contains(head, WEBP) THEN "WEBP"
  ELSE "none"

\* the checks of download_and_save_image on the downloaded bytes: "" when
\* the bytes go on to be written, else the detail of the HTTPException
DownloadRejects(bytes) ==
  IF bytes.size = 0 THEN "Downloaded image is empty"
  ELSE IF bytes.size > MaxImageBytes THEN "Image file too large (max 10MB)"
  ELSE ""

\* byte streams a download can deliver
Stream(head) == [size |-> Len(head), head |-> head]
WebpHead == RIFF \o <<36, 0, 0, 0>> \o WEBP
WaveHead == RIFF \o <<36, 0, 0, 0>> \o <<87, 65, 86, 69>>
HtmlHead == <<60, 104, 116, 109, 108, 62>>
ByteStreams ==
  {Stream(<<>>), Stream(PNG_SIGNATURE), Stream(JPEG_SIGNATURE), Stream(GIF87A_SIGNATURE),
   Stream(GIF89A_SIGNATURE), Stream(WebpHead), Stream(WaveHead), Stream(HtmlHead),
   Stream(SubSeq(PNG_SIGNATURE, 1, 4)),
   [size |-> MaxImageBytes, head |-> PNG_SIGNATURE],
   [size |-> MaxImageBytes + 1, head |-> PNG_SIGNATURE]}

\* the tasks that are followed, <<run, section>>: two tasks of one run and
\* one task of a run that executes concurrently
TaskIds == {<<"run_a", "hero">>, <<"run_a", "features">>, <<"run_b", "hero">>}

NoFile == <<>>
NoBytes == [size |-> 0, head |-> <<>>]
NewTask == [pc |-> "generate", filename |-> NoFile, bytes |-> NoBytes, url |-> <<>>]

\* f"{section}_{timestamp}.png"
Filename(section, timestamp) == <<section, timestamp>>

\* the files present in the uploads directory
UploadedFiles == DOMAIN uploads

\* open(filepath, 'wb') and write: the file holds what the last writer wrote
WriteFile(files, filename, writer, bytes) ==
  [f \in DOMAIN files \cup {filename} |->
     IF f = filename THEN [writer |-> writer, bytes |-> bytes] ELSE files[f]]

\* images.generate answers with a URL; the task stamps its filename
DalleGenerate(t) ==
  /\ pc = "tasks"
  /\ tasks[t].pc = "generate"
  /\ tasks' = [tasks EXCEPT ![t].pc = "download", ![t].filename = Filename(t[2], clock)]
  /\ UNCHANGED <<clock, uploads>>

\* images.generate raises, or answers without a URL
DalleGenerateFails(t) ==
  /\ pc = "tasks"
  /\ tasks[t].pc = "generate"
  /\ tasks' = [tasks EXCEPT ![t].pc = "raised"]
  /\ UNCHANGED <<clock, uploads>>

\* download_and_save_image gets bytes and checks and writes them; call_dalle
\* returns the local URL
DalleDownload(t, bytes) ==
  /\ pc = "tasks"
  /\ tasks[t].pc = "download"
  /\ IF DownloadRejects(bytes) # ""
     THEN /\ tasks' = [tasks EXCEPT ![t].pc = "raised", ![t].bytes = bytes]
          /\ UNCHANGED uploads
     ELSE /\ uploads' = WriteFile(uploads, tasks[t].filename, t, bytes)
          /\ tasks' = [tasks EXCEPT ![t].pc = "returned", ![t].bytes = bytes,
                                    ![t].url = <<"uploads", tasks[t].filename>>]
  /\ UNCHANGED clock

\* requests.get raises (HTTP error, timeout, connection error)
DalleDownloadFails(t) ==
  /\ pc = "tasks"
  /\ tasks[t].pc = "download"
  /\ tasks' = [tasks EXCEPT ![t].pc = "raised"]
  /\ UNCHANGED <<clock, uploads>>

\* a second of wall-clock time passes
Tick ==
  /\ pc = "tasks"
  /\ clock < MaxClock
  /\ clock' = clock + 1
  /\ UNCHANGED <<uploads, tasks>>

WorkflowIdle ==
  /\ planner = GatewayError
  /\ state = initial_state
  /\ prev = initial_state
  /\ stage_env = <<>>
  /\ next_node = "END"
  /\ events = <<>>
  /\ ran = <<>>

workflow_vars == <<planner, state, prev, stage_env, next_node, events, ran>>

InitImages ==
  /\ WorkflowIdle /\ CallIdle /\ StoresIdle
  /\ pc = "tasks"
  /\ clock = 0
  /\ uploads = <<>>
  /\ tasks = [t \in TaskIds |-> NewTask]

NextImages ==
  /\ \/ \E t \in TaskIds : DalleGenerate(t)
     \/ \E t \in TaskIds : DalleGenerateFails(t)
     \/ \E t \in TaskIds : \E bytes \in ByteStreams : DalleDownload(t, bytes)
     \/ \E t \in TaskIds : DalleDownloadFails(t)
     \/ Tick
  /\ UNCHANGED <<workflow_vars, pc, call_vars, store_vars>>

SpecImages == InitImages /\ [][NextImages]_vars

(***************************************************************************)
(* SpecJoin: the three per-section tasks of image_description_node and of  *)
(* image_generation_node, from asyncio.gather to the result map.  A task   *)
(* is [pc, outcome, value, finished]: finished is its place in the order   *)
(* of completion.                                                          *)
(***************************************************************************)
JoinStages == {"image_description", "image_generation"}

RunningTask == [pc |-> "running", outcome |-> "none", value |-> <<>>, finished |-> 0]

NumFinished == Cardinality({i \in DOMAIN tasks : tasks[i].pc = "done"})

\* what the task of a section hands to gather: generate_description_safe
\* returns (section, description) or (section, e); call_dalle returns the
\* local URL or raises, and gather keeps the exception as the result
TaskValue(stage, section, outcome) ==
  IF stage = "image_description"
  THEN <<section, IF outcome = "ok" THEN DescriptionFor(section, "ok") ELSE <<"exception">>>>
  ELSE IF outcome = "ok" THEN ImageUrlFor(section, "ok") ELSE <<"exception">>

\* a list of results in the order in which the tasks completed
GatherResults_by_completion(ts) ==
  [k \in 1..Len(ts) |-> ts[CHOOSE i \in 1..Len(ts) : ts[i].finished = k].value]

\* results = await asyncio.gather(*tasks): in the order of the awaitables
GatherResults(ts) == [i \in 1..Len(ts) |-> ts[i].value]

\* for section, result in results: image_descriptions[section] = ...
DescriptionsFrom(results) ==
  Dict([i \in 1..Len(results) |->
          KV(results[i][1],
             IF results[i][2] = <<"exception">> THEN DescriptionFor(results[i][1], "error")
             ELSE results[i][2])])

\* for i, result in enumerate(results): section = sections_to_process[i]
ImageUrlsFrom(sections_to_process, results) ==
  Dict([i \in 1..Len(results) |->
          KV(sections_to_process[i],
             IF results[i] = <<"exception">> THEN ImageUrlFor(sections_to_process[i], "error")
             ELSE results[i])])

\* one of the tasks completes, with its value or with an exception
TaskCompletes(i, outcome) ==
  /\ pc = "gather"
  /\ tasks[i].pc = "running"
  /\ tasks' = [tasks EXCEPT ![i] = [pc |-> "done", outcome |-> outcome,
                                    value |-> TaskValue(call.stage, Sections[i], outcome),
                                    finished |-> NumFinished + 1]]
  /\ UNCHANGED <<pc, result>>

\* gather returns when every task is done; the stage builds its map
Join ==
  /\ pc = "gather"
  /\ \A i \in DOMAIN tasks : tasks[i].pc = "done"
  /\ result' = IF call.stage = "image_description" THEN DescriptionsFrom(GatherResults(tasks))
               ELSE ImageUrlsFrom(Sections, GatherResults(tasks))
  /\ pc' = "joined"
  /\ UNCHANGED tasks

InitJoin ==
  /\ WorkflowIdle /\ StoresIdle
  /\ clock = 0 /\ uploads = <<>>
  /\ call \in {[stage |-> s] : s \in JoinStages}
  /\ result = <<>>
  /\ pc = "gather"
  /\ tasks = [i \in 1..Len(Sections) |-> RunningTask]

NextJoin ==
  /\ \/ \E i \in 1..Len(Sections) : \E outcome \in {"ok", "error"} : TaskCompletes(i, outcome)
     \/ Join
  /\ UNCHANGED <<workflow_vars, clock, uploads, call, store_vars>>

SpecJoin == InitJoin /\ [][NextJoin]_vars

(***************************************************************************)
(* SpecUpdate: WebsiteUpdater.forward(pages, global_css, edit_request).    *)
(* The call is [pages, global_css, edit_request, classifier, css_edit,     *)
(* page_edits]: pages is the list of the entries [k, v] of the pages dict, *)
(* a page is [html, css, has_css], an HTML document is [doc, styles] (its  *)
(* content without style blocks and the contents of its style blocks), a   *)
(* CSS text is a tuple of tokens, <<>> the empty string and NoneText None. *)
(* classifier is the analyzer's answer [raises, text]; css_edit and        *)
(* page_edits[name] are what the HTML editor does when it is called for    *)
(* the global CSS and for a page: "raise", "unchanged" (it returns its     *)
(* input), "changed_plain" or "changed_style" (an edited document without  *)
(* or with a style block).                                                 *)
(***************************************************************************)
\* bool(v) of a parsed JSON value
Truthy(v) ==
  CASE v.t = "null" -> FALSE
    [] v.t = "false" -> FALSE
    [] v.t = "true" -> TRUE
    [] v.t = "str" -> v.s # <<>>
    [] OTHER -> v.kids # <<>>

\* d.get(k)
DictGet(d, k) == IF HasKey(d, k) THEN Get(d, k) ELSE JNull

\* hash(v) does not raise
Hashable(v) == v.t \notin {"arr", "obj"}

\* bool(css) of an Optional[str]
CssTruthy(css) == css # NoneText /\ css # <<>>

\* str.lower on a token
Lower(tok) ==
  CASE tok = "Home" -> "home"
    [] tok = "About" -> "about"
    [] tok = "Color" -> "color"
    [] tok = "Rate" -> "rate"
    [] OTHER -> tok

\* edit_request.lower()
LowerText(t) == [i \in 1..Len(t) |-> Lower(t[i])]

global_keywords ==
  <<<<"color">>, <<"font">>, <<"theme">>, <<"all", " ", "pages">>, <<"everywhere">>,
    <<"global">>, <<"button">>, <<"spacing">>>>

\* any(keyword in edit_lower for keyword in global_keywords)
IsGlobal(edit_request) ==
  \E i \in 1..Len(global_keywords) : Contains(LowerText(edit_request), global_keywords[i])

\* list(pages.keys())
AvailablePages(pages) == [i \in 1..Len(pages) |-> pages[i].k]

\* [page for page in available_pages_list if page in edit_lower]
NamedPages(pages, edit_request) ==
  SelectSeq(AvailablePages(pages), LAMBDA name : Contains(LowerText(edit_request), name))

\* any(page_name in edit_lower for page_name in available_pages_list)
PageSpecific(pages, edit_request) == NamedPages(pages, edit_request) # <<>>

Names(names) == JArr([i \in 1..Len(names) |-> JStr(names[i])])

Analysis(update_type, target_pages, requires_css_update, interpretation) ==
  JObj(<<KV(<<"update_type">>, Word(update_type)),
         KV(<<"target_pages">>, target_pages),
         KV(<<"requires_css_update">>, IF requires_css_update THEN JTrue ELSE JFalse),
         KV(<<"interpretation">>, Word(interpretation))>>)

\* the branch of a request with a page name and no styling keyword, asking
\* for a CSS update as well
SpecificPagesAnalysis_with_css(pages, edit_request) ==
  Analysis("specific_pages", Names(NamedPages(pages, edit_request)), TRUE,
           "Updating content on specific pages")

\* elif page_specific and not is_global
SpecificPagesAnalysis(pages, edit_request) ==
  Analysis("specific_pages", Names(NamedPages(pages, edit_request)), FALSE,
           "Updating content on specific pages")

\* the keyword fallback: [raises, analysis]; raises stands for the
\* IndexError of available_pages_list[0] on an empty list
KeywordFallback(pages, edit_request) ==
  LET is_global == IsGlobal(edit_request)
      page_specific == PageSpecific(pages, edit_request)
      named == NamedPages(pages, edit_request)
  IN IF is_global /\ ~page_specific
     THEN [raises |-> FALSE,
           analysis |-> Analysis("global_css", JArr(<<>>), TRUE, "Applying global styling changes")]
     ELSE IF page_specific /\ ~is_global
     THEN [raises |-> FALSE, analysis |-> SpecificPagesAnalysis(pages, edit_request)]
     ELSE IF named = <<>> /\ pages = <<>>
     THEN [raises |-> TRUE, analysis |-> JNull]
     ELSE [raises |-> FALSE,
           analysis |-> Analysis("both",
                                 Names(IF named = <<>> THEN <<AvailablePages(pages)[1]>> ELSE named),
                                 TRUE, "Updating both styling and page content")]

\* except Exception: the analysis that updates the first page only
UltraFallback(pages) ==
  Analysis("specific_pages",
           Names(IF pages = <<>> THEN <<>> ELSE <<AvailablePages(pages)[1]>>),
           FALSE, "Updating page content")

\* Step 1: the analysis forward goes on with
Analyze(c) ==
  IF c.classifier.raises THEN UltraFallback(c.pages)
  ELSE LET r == Loads(c.classifier.text)
       IN IF r.ok THEN r.v
          ELSE LET k == KeywordFallback(c.pages, c.edit_request)
               IN IF k.raises THEN UltraFallback(c.pages) ELSE k.analysis

\* HTML documents and the HTML editor
Document(doc, styles) == [doc |-> doc, styles |-> styles]

\* '\n\n'.join(css_matches)
RECURSIVE JoinStyles(_)
JoinStyles(styles) ==
  IF styles = <<>> THEN <<>>
  ELSE IF Len(styles) = 1 THEN styles[1]
  ELSE styles[1] \o <<"nl", "nl">> \o JoinStyles(Tail(styles))

\* _extract_css(html): (html_without_style, extracted_css)
ExtractCss(html) ==
  [html |-> Document(html.doc, <<>>), css |-> Strip(JoinStyles(html.styles))]

\* what self.html_editor(html, css, edit_request) returns; the outcome is
\* not "raise"
EditorOutput(html, outcome) ==
  CASE outcome = "unchanged" -> html
    [] outcome = "changed_plain" -> Document(<<"edited">> \o html.doc, <<>>)
    [] OTHER -> Document(<<"edited">> \o html.doc, <<<<"edited", "css">>>>)

EditOutcomes == {"raise", "unchanged", "changed_plain", "changed_style"}

PageIn(pages, name) == \E i \in 1..Len(pages) : pages[i].k = name
PageOf(pages, name) == pages[CHOOSE i \in 1..Len(pages) : pages[i].k = name].v

\* page_data.get('css', global_css if global_css else '')
CurrentCss(page_data, global_css) ==
  IF page_data.has_css THEN page_data.css
  ELSE IF CssTruthy(global_css) THEN global_css ELSE <<>>

\* the accumulators of Step 2
NoUpdates == [raised |-> FALSE, updated_pages |-> <<>>, changes_made |-> <<>>, calls |-> <<>>]

RECURSIVE EditPages(_, _, _, _)

\* an editor failure that ends the loop over the target pages
EditFailed_ends_loop(c, targets, i, called) == called

\* except Exception as e: the failure is logged and the loop goes on
EditFailed(c, targets, i, called) == EditPages(c, targets, i + 1, called)

\* for page_name in target_pages: ...
EditPages(c, targets, i, acc) ==
  IF i > Len(targets) THEN acc
  ELSE IF ~Hashable(targets[i]) THEN [acc EXCEPT !.raised = TRUE]
  ELSE IF targets[i].t # "str" \/ ~PageIn(c.pages, targets[i].s)
  THEN EditPages(c, targets, i + 1, acc)
  ELSE LET page_name == targets[i].s
           page_data == PageOf(c.pages, page_name)
           current_css == CurrentCss(page_data, c.global_css)
           called == [acc EXCEPT !.calls = Append(@, [page |-> page_name, html |-> page_data.html,
                                                      css |-> current_css])]
       IN IF c.page_edits[page_name] = "raise" THEN EditFailed(c, targets, i, called)
          ELSE LET x == ExtractCss(EditorOutput(page_data.html, c.page_edits[page_name]))
               IN EditPages(c, targets, i + 1,
                    [called EXCEPT
                       !.updated_pages = SetKey(@, page_name,
                                                [html |-> x.html,
                                                 css |-> IF x.css # <<>> THEN x.css ELSE current_css]),
                       !.changes_made = Append(@, <<"Updated", page_name, "page">>)])

\* the update of the global CSS: [updated_global_css, changes_made, called];
\* called tells whether the editor was invoked on the CSS wrapper
UpdateGlobalCss(c, analysis) ==
  IF ~(Truthy(DictGet(analysis, <<"requires_css_update">>)) /\ CssTruthy(c.global_css))
  THEN [updated_global_css |-> NoneText, changes_made |-> <<>>, called |-> FALSE]
  ELSE IF c.css_edit = "raise"
  THEN [updated_global_css |-> c.global_css, changes_made |-> <<>>, called |-> TRUE]
  ELSE LET css_wrapper_html == Document(<<"CSS Template">>, <<c.global_css>>)
           modified_html == EditorOutput(css_wrapper_html, c.css_edit)
       IN IF modified_html.styles = <<>>
          THEN [updated_global_css |-> c.global_css, changes_made |-> <<>>, called |-> TRUE]
          ELSE [updated_global_css |-> Strip(JoinStyles(modified_html.styles)),
                changes_made |-> <<<<"Updated global CSS styling">>>>, called |-> TRUE]

ForwardRaised == [raised |-> TRUE]

\* forward: what it returns, or ForwardRaised
forward(c) ==
  LET analysis == Analyze(c)
  IN IF ~IsDict(analysis) THEN ForwardRaised
     ELSE LET g == UpdateGlobalCss(c, analysis)
              target_pages == IF HasKey(analysis, <<"target_pages">>)
                              THEN Get(analysis, <<"target_pages">>) ELSE JArr(<<>>)
              wanted == Truthy(target_pages)
                          /\ DictGet(analysis, <<"update_type">>)
                               \in {Word("specific_pages"), Word("both")}
              it == IterItems(target_pages)
              e == IF ~wanted THEN NoUpdates
                   ELSE IF it.raises THEN [NoUpdates EXCEPT !.raised = TRUE]
                   ELSE EditPages(c, it.items, 1, NoUpdates)
              changes_made == g.changes_made \o e.changes_made
          IN IF e.raised THEN ForwardRaised
             ELSE [raised |-> FALSE,
                   updated_pages |-> Dict(e.updated_pages),
                   updated_global_css |-> g.updated_global_css,
                   changes_summary |-> IF changes_made = <<>>
                                       THEN <<"No changes were made. Please check your request.">>
                                       ELSE <<"Successfully applied changes">> \o changes_made,
                   analysis |-> analysis,
                   calls |-> e.calls,
                   css_called |-> g.called]

\* the inputs
CssKinds == {"absent", "empty", "own"}

PageData(name, kind) ==
  [html |-> Document(<<name, "v1">>, <<>>),
   css |-> IF kind = "own" THEN <<"css", "of">> \o name ELSE <<>>,
   has_css |-> kind # "absent"]

UpdatePages ==
  {<<>>, <<KV(<<"Home">>, PageData(<<"Home">>, "own"))>>,
   <<KV(<<"about">>, PageData(<<"about">>, "own")), KV(<<"home">>, PageData(<<"home">>, "own"))>>}
  \cup {<<KV(<<"home">>, PageData(<<"home">>, k))>> : k \in CssKinds}
  \cup {<<KV(<<"home">>, PageData(<<"home">>, k)), KV(<<"about">>, PageData(<<"about">>, "own"))>> :
          k \in CssKinds}

PageNames == {<<"home">>, <<"about">>, <<"Home">>}

\* what the editor does for each page: "Home" is treated as "home" is
PageEdits(outcomes) ==
  {[n \in PageNames |-> IF n = <<"about">> THEN a ELSE h] : h \in outcomes, a \in outcomes}

GlobalCsses == {NoneText, <<>>, <<"global", "css">>}

EditRequests ==
  {<<"change", " ", "all", " ", "color", "s", " ", "to", " ", "blue">>,
   <<"update", " ", "hero", " ", "text", " ", "on", " ", "home", " ", "page">>,
   <<"change", " ", "the", " ", "Color", " ", "on", " ", "the", " ", "about", " ", "page">>,
   <<"make", " ", "it", " ", "nicer">>,
   <<"update", " ", "the", " ", "Home", " ", "page">>,
   <<"swap", " ", "about", " ", "and", " ", "home">>}

ClassifierAnalyses ==
  {JNull, JTrue, JArr(<<>>), Word("w"), JObj(<<>>),
   Analysis("global_css", JArr(<<>>), TRUE, "w"),
   Analysis("global_css", Names(<<<<"home">>>>), TRUE, "w"),
   Analysis("specific_pages", Names(<<<<"home">>>>), FALSE, "w"),
   Analysis("specific_pages", Names(<<<<"home">>>>), TRUE, "w"),
   Analysis("specific_pages", Names(<<<<"missing">>, <<"home">>>>), FALSE, "w"),
   Analysis("specific_pages", Names(<<<<"home">>, <<"home">>>>), FALSE, "w"),
   Analysis("specific_pages", JArr(<<JArr(<<>>)>>), FALSE, "w"),
   Analysis("specific_pages", JTrue, FALSE, "w"),
   Analysis("both", Names(<<<<"about">>, <<"home">>>>), TRUE, "w")}

Classified(v) == [raises |-> FALSE, text |-> Dumps(v), shape |-> "json", value |-> v]
NotJson == [raises |-> FALSE, text |-> <<"w", " ", "{">>, shape |-> "text", value |-> JNull]
ClassifierRaises == [raises |-> TRUE, text |-> <<>>, shape |-> "none", value |-> JNull]

\* the edit request matters to forward only in the keyword fallback
UpdateCalls ==
  {[pages |-> pages, global_css |-> global_css, edit_request |-> edit_request,
    classifier |-> classifier, css_edit |-> css_edit, page_edits |-> page_edits] :
     pages \in UpdatePages, global_css \in GlobalCsses,
     edit_request \in {<<"make", " ", "it", " ", "nicer">>},
     classifier \in {Classified(v) : v \in ClassifierAnalyses} \cup {ClassifierRaises},
     css_edit \in {"raise", "unchanged", "changed_style"},
     page_edits \in PageEdits(EditOutcomes)}
  \cup
  {[pages |-> pages, global_css |-> global_css, edit_request |-> edit_request,
    classifier |-> NotJson, css_edit |-> css_edit, page_edits |-> page_edits] :
     pages \in UpdatePages, global_css \in GlobalCsses, edit_request \in EditRequests,
     css_edit \in {"raise", "unchanged", "changed_style"},
     page_edits \in PageEdits({"raise", "unchanged", "changed_style"})}

InitUpdate ==
  /\ WorkflowIdle /\ ImagesIdle /\ StoresIdle
  /\ call \in UpdateCalls
  /\ result = <<>>
  /\ pc = "call"

CallForward ==
  /\ pc = "call"
  /\ result' = forward(call)
  /\ pc' = "returned"
  /\ UNCHANGED <<workflow_vars, image_vars, call, store_vars>>

NextUpdate == CallForward

SpecUpdate == InitUpdate /\ [][NextUpdate]_vars

(***************************************************************************)
(* SpecEdit: the /api/edit-html endpoint.  The call is [html, css,         *)
(* edit_request, gateway]: texts are tuples of tokens, a style block is    *)
(* the one token "style" and its content the token "rules"; gateway is     *)
(* what HTMLEditor does, [raises, name, text]: the exception's type name   *)
(* and message, or the text it returns.  The result is the HTTP response   *)
(* [status, detail, html, css].                                            *)
(***************************************************************************)
LINK_TAG == "link"

\* re.findall(style_pattern, html): the CSS of the style blocks, joined and
\* stripped
StyleCss(html) ==
  Strip(JoinStyles([i \in 1..Len(SelectSeq(html, LAMBDA tok : tok = "style")) |-> <<"rules">>]))

\* re.sub(r'(</head>)', link_tag + '\1', html): the link before every tag
RECURSIVE InsertBefore(_, _)
InsertBefore(html, tag) ==
  IF html = <<>> THEN <<>>
  ELSE (IF Head(html) = tag THEN <<LINK_TAG, tag>> ELSE <<Head(html)>>)
         \o InsertBefore(Tail(html), tag)

HasToken(html, tag) == \E i \in 1..Len(html) : html[i] = tag

\* extract_css_and_replace_style_tags: (html_with_link, extracted_css)
extract_css_and_replace_style_tags(html) ==
  LET html_without_style == SelectSeq(html, LAMBDA tok : tok # "style")
  IN [html |-> IF HasToken(html_without_style, "</head>")
               THEN InsertBefore(html_without_style, "</head>")
               ELSE IF HasToken(html_without_style, "</html>")
               THEN InsertBefore(html_without_style, "</html>")
               ELSE <<LINK_TAG>> \o html_without_style,
      css |-> StyleCss(html)]

\* the markdown wrappers are removed and the text stripped
CleanModifiedHtml(text) ==
  LET stripped == Strip(text)
      opened == IF Len(stripped) >= 2 /\ stripped[1] = "fence" /\ stripped[2] = "html"
                THEN SubSeq(stripped, 3, Len(stripped))
                ELSE IF stripped # <<>> /\ stripped[1] = "fence" THEN Tail(stripped)
                ELSE stripped
      closed == IF opened # <<>> /\ opened[Len(opened)] = "fence"
                THEN SubSeq(opened, 1, Len(opened) - 1) ELSE opened
  IN Strip(closed)

\* modified_html.startswith("<!DOCTYPE") or modified_html.startswith("<html")
StartsAsHtml(html) == html # <<>> /\ html[1] \in {"<!DOCTYPE", "<html"}

HttpError(status, detail) == [status |-> status, detail |-> detail, html |-> <<>>, css |-> <<>>]
EditHTMLResponse(html, css) == [status |-> 200, detail |-> <<>>, html |-> html, css |-> css]

edit_fallback_html == <<"<!DOCTYPE", "edit_fallback_html">>
edit_fallback_css == <<"edit_fallback_css">>

Exception(name, text) == [raises |-> TRUE, name |-> name, text |-> text]
Returns(text) == [raises |-> FALSE, name |-> "", text |-> text]

\* the token usage summary reads edit_prompt_tokens, which no statement
\* assigns
TokenUsageSummary ==
  Exception("NameError", <<"name", " ", "edit_prompt_tokens", " ", "is", " ", "not", " ", "defined">>)

\* except Exception as e
HandleException(e) ==
  LET lower == LowerText(e.text)
      is_rate_limit_error ==
        \/ e.name = "RateLimitError"
        \/ Contains(lower, <<"rate", " ", "limit">>)
        \/ Contains(lower, <<"quota">>)
        \/ Contains(lower, <<"exceeded">>)
      is_api_key_error ==
        \/ Contains(e.text, <<"OPENAI_API_KEY">>)
        \/ Contains(lower, <<"api", " ", "key">>)
  IN IF is_rate_limit_error \/ is_api_key_error
     THEN EditHTMLResponse(edit_fallback_html, edit_fallback_css)
     ELSE HttpError(500, <<"Error editing HTML">> \o e.text)

\* what the endpoint answers
edit_html(request) ==
  IF Strip(request.html) = <<>>
  THEN HttpError(400, <<"HTML content is required">>)
  ELSE IF Len(Strip(request.edit_request)) < 5
  THEN HttpError(400, <<"Edit request must be at least 5 characters long">>)
  ELSE IF request.gateway.raises THEN HandleException(request.gateway)
  ELSE LET modified_html == CleanModifiedHtml(request.gateway.text)
       IN IF ~StartsAsHtml(modified_html)
          THEN HttpError(500, <<"Modified content is not valid HTML">>)
          ELSE LET x == extract_css_and_replace_style_tags(modified_html)
               IN IF TokenUsageSummary.raises THEN HandleException(TokenUsageSummary)
                  ELSE EditHTMLResponse(x.html, x.css)

EditHtmls ==
  {<<>>, <<" ">>,
   <<"<!DOCTYPE", "<html", "<head>", "style", "</head>", "body", "</html>">>,
   <<"<html", "body", "</html>">>}

EditCsses == {<<>>, <<" ">>, <<"rules">>}

EditTexts ==
  {<<>>, <<"e", "d", "i", "t">>, <<" ", "e", "d", "i", "t", " ">>,
   <<"e", "d", "i", "t", "s">>, <<"m", "a", "k", "e", " ", "i", "t">>}

GatewayOutcomes ==
  {Exception("RateLimitError", <<"boom">>),
   Exception("Exception", <<"Rate", " ", "limit", " ", "reached">>),
   Exception("Exception", <<"quota">>),
   Exception("Exception", <<"OPENAI_API_KEY", " ", "missing">>),
   Exception("Exception", <<"connection", " ", "reset">>),
   Returns(<<"<!DOCTYPE", "<html", "<head>", "style", "</head>", "body", "</html>">>),
   Returns(<<" ", "<html", "body", "</html>", " ">>),
   Returns(<<"<html", "style", "body", "style">>),
   Returns(<<"fence", "html", " ", "<!DOCTYPE", "<html", "<head>", "</head>", "</html>", " ", "fence">>),
   Returns(<<"fence", "<html", "body", "</html>">>),
   Returns(<<"Here", " ", "is", " ", "the", " ", "page">>),
   Returns(<<>>)}

EditCalls ==
  {[html |-> html, css |-> css, edit_request |-> edit_request, gateway |-> gateway] :
     html \in EditHtmls, css \in EditCsses, edit_request \in EditTexts,
     gateway \in GatewayOutcomes}

InitEdit ==
  /\ WorkflowIdle /\ ImagesIdle /\ StoresIdle
  /\ call \in EditCalls
  /\ result = <<>>
  /\ pc = "call"

CallEditHtml ==
  /\ pc = "call"
  /\ result' = edit_html(call)
  /\ pc' = "returned"
  /\ UNCHANGED <<workflow_vars, image_vars, call, store_vars>>

NextEdit == CallEditHtml

SpecEdit == InitEdit /\ [][NextEdit]_vars

(***************************************************************************)
(* SpecSave: WebsiteFileManager.save_complete_website(pages, plan,         *)
(* description, image_urls, css_theme) into a fresh folder.  The folder is *)
(* the list of its files [k, v], file name and content; a file name is     *)
(* <<stem, extension>>.  An HTML text is a tuple of tokens as in SpecEdit; *)
(* the token "href_x" is a link href="x" and "href_x.html" the link        *)
(* href="x.html".                                                          *)
(***************************************************************************)
InsertAt(t, i, tok) == SubSeq(t, 1, i - 1) \o <<tok>> \o SubSeq(t, i, Len(t))

FirstIndex(t, tok) == CHOOSE i \in 1..Len(t) : t[i] = tok /\ \A j \in 1..(i - 1) : t[j] # tok

\* extract_css_from_html: (html_without_style, extracted_css)
extract_css_from_html(html) ==
  [html |-> SelectSeq(html, LAMBDA tok : tok # "style"), css |-> StyleCss(html)]

\* add_css_link_to_html(html, "style.css")
add_css_link_to_html(html) ==
  IF HasToken(html, LINK_TAG) THEN html
  ELSE IF HasToken(html, "</head>") THEN InsertAt(html, FirstIndex(html, "</head>"), LINK_TAG)
  ELSE IF HasToken(html, "<body>") THEN InsertAt(html, FirstIndex(html, "<body>") + 1, LINK_TAG)
  ELSE <<LINK_TAG>> \o html

StyleCssFile == <<"style", ".css">>
IndexHtmlFile == <<"index", ".html">>
MetadataFile == <<"metadata", ".json">>
HtmlFile(page_name) == <<page_name, ".html">>

\* the CSS collected from one page, with its header comment, or <<>>
PageCss(page_name, page_content) ==
  LET css == page_content.css
      extracted_css == extract_css_from_html(page_content.html).css
      combined_css == IF extracted_css = <<>> THEN css
                      ELSE IF css # <<>> THEN css \o <<"nl", "nl">> \o extracted_css
                      ELSE extracted_css
  IN IF combined_css = <<>> THEN <<>>
     ELSE <<"/* CSS for", page_name, "page */", "nl">> \o combined_css

\* global_css: the theme, or the CSS of the pages joined
GlobalCss(pages, global_css_theme) ==
  IF CssTruthy(global_css_theme) THEN global_css_theme
  ELSE JoinStyles(SelectSeq([i \in 1..Len(pages) |-> PageCss(pages[i].k, pages[i].v)],
                            LAMBDA css : css # <<>>))

\* if global_css: the file style.css is written
WriteGlobalCss(folder, global_css) ==
  IF global_css # <<>> THEN SetKey(folder, StyleCssFile, global_css) ELSE folder

\* Second pass: the HTML file of each page
RECURSIVE WritePages(_, _, _)
WritePages(folder, pages, i) ==
  IF i > Len(pages) THEN folder
  ELSE WritePages(SetKey(folder, HtmlFile(pages[i].k),
                         add_css_link_to_html(extract_css_from_html(pages[i].v.html).html)),
                  pages, i + 1)

\* save_website_files(pages, website_folder, True, css_theme)
save_website_files(folder, pages, global_css_theme) ==
  WritePages(WriteGlobalCss(folder, GlobalCss(pages, global_css_theme)), pages, 1)

\* href="target" becomes href="target.html" for the pages of the site
FixLink(tok, page_names) ==
  CASE tok = "href_home" /\ "home" \in page_names -> "href_home.html"
    [] tok = "href_about" /\ "about" \in page_names -> "href_about.html"
    [] tok = "href_index" /\ "index" \in page_names -> "href_index.html"
    [] OTHER -> tok

\* fix_internal_links(website_folder, page_names)
fix_internal_links(folder, page_names) ==
  [i \in 1..Len(folder) |->
     IF \E p \in page_names : folder[i].k = HtmlFile(p)
     THEN KV(folder[i].k, [j \in 1..Len(folder[i].v) |-> FixLink(folder[i].v[j], page_names)])
     ELSE folder[i]]

\* the page that redirects to home_page.html
RedirectHtml(home_page) == <<"<!DOCTYPE", "refresh", HtmlFile(home_page)>>

\* create_index_html(website_folder, home_page)
create_index_html(folder, home_page) == SetKey(folder, IndexHtmlFile, RedirectHtml(home_page))

SaveRaised == [raised |-> TRUE, folder |-> <<>>, saved_files |-> <<>>, pages |-> <<>>]

\* save_complete_website in a new website folder
save_complete_website(c) ==
  LET page_names == [i \in 1..Len(c.pages) |-> c.pages[i].k]
      saved == save_website_files(<<>>, c.pages, c.css_theme)
      fixed == fix_internal_links(saved, {page_names[i] : i \in 1..Len(page_names)})
  IN IF page_names = <<>> THEN SaveRaised
     ELSE LET home_page == IF \E i \in 1..Len(page_names) : page_names[i] = "home"
                           THEN "home" ELSE page_names[1]
              metadata == [created_at |-> <<"now">>,
                           description |-> c.description,
                           plan |-> c.plan,
                           pages |-> page_names,
                           image_urls |-> IF c.image_urls.none \/ c.image_urls.items = <<>>
                                          THEN Dict(<<>>) ELSE c.image_urls,
                           has_global_css_theme |-> CssTruthy(c.css_theme)]
          IN [raised |-> FALSE,
              folder |-> SetKey(create_index_html(fixed, home_page), MetadataFile, metadata),
              saved_files |-> [i \in 1..Len(page_names) |->
                                 KV(page_names[i], HtmlFile(page_names[i]))],
              pages |-> page_names]

\* the inputs
SaveHtmls ==
  {<<"<!DOCTYPE", "<html", "<head>", "style", "</head>", "<body>", "href_about", "</html>">>,
   <<"<!DOCTYPE", "<html", "<head>", "</head>", "<body>", "href_home", "</html>">>,
   <<"<body>", "href_index", "text">>}

SavePageContents == {[html |-> html, css |-> css] : html \in SaveHtmls, css \in {<<>>, <<"rules">>}}

SavePageNames == {"home", "about", "index"}

SavePages ==
  {<<>>}
  \cup {<<KV(n, v)>> : n \in SavePageNames, v \in SavePageContents}
  \cup {<<KV(names[1], v1), KV(names[2], v2)>> :
          names \in {ns \in SavePageNames \X SavePageNames : ns[1] # ns[2]},
          v1 \in SavePageContents, v2 \in SavePageContents}

SaveCalls ==
  {[pages |-> pages, plan |-> plan, description |-> <<"a", " ", "bakery">>,
    image_urls |-> image_urls, css_theme |-> css_theme] :
     pages \in SavePages,
     plan \in {JNull, JObj(<<KV(<<"pages">>, JArr(<<>>))>>)},
     image_urls \in {NoneDict, Dict(<<>>), Dict(<<KV("hero", <<"/uploads/hero.png">>)>>)},
     css_theme \in {NoneText, <<>>, <<"theme">>}}

InitSave ==
  /\ WorkflowIdle /\ ImagesIdle /\ StoresIdle
  /\ call \in SaveCalls
  /\ result = <<>>
  /\ pc = "call"

CallSaveCompleteWebsite ==
  /\ pc = "call"
  /\ result' = save_complete_website(call)
  /\ pc' = "returned"
  /\ UNCHANGED <<workflow_vars, image_vars, call, store_vars>>

NextSave == CallSaveCompleteWebsite

SpecSave == InitSave /\ [][NextSave]_vars

(***************************************************************************)
(* SpecThreads: generate-website requests served by one process.  Each     *)
(* request is a task [pc, thread_id, step, final]: it takes its thread id  *)
(* from the clock, streams the workflow stage by stage (the generator is   *)
(* suspended at each event it yields, where another request can run) and   *)
(* then reads the final state back from the checkpointer.  The MemorySaver *)
(* keeps, per thread id, the latest state written under it; a state is     *)
(* identified by the request that wrote it and the stages it has run.      *)
(***************************************************************************)
Requests == {"request_a", "request_b"}

NoThread == <<>>

NewRequest == [pc |-> "new", thread_id |-> NoThread, step |-> 0, final |-> <<>>]

\* thread_id = {"configurable": {"thread_id": str(int(time.time()))}}
ThreadId(timestamp) == <<"thread", timestamp>>

\* the checkpointer saves a state under a thread id
PutCheckpoint(saved, thread_id, value) ==
  [k \in DOMAIN saved \cup {thread_id} |-> IF k = thread_id THEN value ELSE saved[k]]

\* event_stream starts: it takes the thread id and the workflow runs its
\* first stage up to the first event
StartStream(r) ==
  /\ pc = "tasks"
  /\ tasks[r].pc = "new"
  /\ tasks' = [tasks EXCEPT ![r].pc = "streaming", ![r].thread_id = ThreadId(clock),
                            ![r].step = 1]
  /\ checkpoints' = PutCheckpoint(checkpoints, ThreadId(clock), [request |-> r, step |-> 1])
  /\ UNCHANGED <<clock, uploads>>

\* the workflow runs its next stage and the event is yielded
StreamStage(r) ==
  /\ pc = "tasks"
  /\ tasks[r].pc = "streaming"
  /\ tasks[r].step < Cardinality(Nodes)
  /\ tasks' = [tasks EXCEPT ![r].step = @ + 1]
  /\ checkpoints' = PutCheckpoint(checkpoints, tasks[r].thread_id,
                                  [request |-> r, step |-> tasks[r].step + 1])
  /\ UNCHANGED <<clock, uploads>>

\* final_state = website_workflow.get_state(thread_id).values
GetFinalState(r) ==
  /\ pc = "tasks"
  /\ tasks[r].pc = "streaming"
  /\ tasks[r].step = Cardinality(Nodes)
  /\ tasks' = [tasks EXCEPT ![r].pc = "done", ![r].final = checkpoints[tasks[r].thread_id]]
  /\ UNCHANGED <<clock, uploads, checkpoints>>

InitThreads ==
  /\ WorkflowIdle /\ CallIdle
  /\ pc = "tasks"
  /\ clock = 0
  /\ uploads = <<>>
  /\ tasks = [r \in Requests |-> NewRequest]
  /\ checkpoints = <<>>
  /\ limiter = <<>>
  /\ reference = <<>>

NextThreads ==
  \/ /\ \/ \E r \in Requests : StartStream(r)
        \/ \E r \in Requests : StreamStage(r)
        \/ \E r \in Requests : GetFinalState(r)
     /\ UNCHANGED <<workflow_vars, pc, call_vars, limiter, reference>>
  \/ Tick /\ UNCHANGED <<workflow_vars, pc, call_vars, store_vars>>

SpecThreads == InitThreads /\ [][NextThreads]_vars

(***************************************************************************)
(* RateLimiter (rate_limiter.py): one token bucket per client and window.  *)
(* time.time() is the clock, in whole seconds.  Tokens are counted in      *)
(* units of 1/3600 token, so that the refill of either bucket over a whole *)
(* number of seconds is a whole number of units: the minute bucket gains   *)
(* requests_per_minute / 60 tokens a second, the hour bucket               *)
(* requests_per_hour / 3600.  The arithmetic is exact; the rounding of the *)
(* floats of the program is not modelled.                                  *)
(***************************************************************************)
Clients == {"client_a", "client_b"}

\* bounds: the largest setting of a limiter, the number of times the clock
\* is advanced, the number of racing threads
MaxRate == 3
MaxAdvances == 1
MaxThreads == 3

\* the seconds that pass between two calls
TimeSteps == {30, 1800, 3600}

\* the burst sizes a limiter is made with
BurstSizes == {1, 2}

SecondsPerMinute == 60
SecondsPerHour == 3600
CleanupInterval == 300
BucketMaxIdle == 3600

\* one token, in units
Token == SecondsPerHour

None == "None"

Min(a, b) == IF a < b THEN a ELSE b

RateLimitBucket(capacity, tokens, last_update, refill_rate) ==
  [capacity |-> capacity, tokens |-> tokens, last_update |-> last_update,
   refill_rate |-> refill_rate]

\* the default factories of the two bucket maps
NewMinuteBucket(l, now) ==
  RateLimitBucket(l.requests_per_minute, l.requests_per_minute * Token, now,
                  l.requests_per_minute * (Token \div SecondsPerMinute))

NewHourBucket(l, now) ==
  RateLimitBucket(l.requests_per_hour, l.requests_per_hour * Token, now,
                  l.requests_per_hour * (Token \div SecondsPerHour))

\* a threading.Lock that no thread holds; <<t>> when thread t holds it
Unlocked == <<>>

RateLimiter(requests_per_minute, requests_per_hour, burst_size, now) ==
  [requests_per_minute |-> requests_per_minute,
   requests_per_hour |-> requests_per_hour,
   burst_size |-> burst_size,
   minute_buckets |-> <<>>,
   hour_buckets |-> <<>>,
   lock |-> Unlocked,
   last_cleanup |-> now]

\* buckets[client_id] of a defaultdict: a missing bucket is made by the factory
GetBucket(buckets, client_id, new) ==
  IF client_id \in DOMAIN buckets THEN buckets[client_id] ELSE new

SetBucket(buckets, client_id, bucket) ==
  [k \in DOMAIN buckets \cup {client_id} |-> IF k = client_id THEN bucket ELSE buckets[k]]

DelBucket(buckets, client_id) ==
  [k \in DOMAIN buckets \ {client_id} |-> buckets[k]]

refill_bucket_uncapped(bucket, now) ==
  [bucket EXCEPT !.tokens = bucket.tokens + (now - bucket.last_update) * bucket.refill_rate,
                 !.last_update = now]

refill_bucket(bucket, now) ==
  [bucket EXCEPT !.tokens = Min(bucket.capacity * Token,
                                bucket.tokens + (now - bucket.last_update) * bucket.refill_rate),
                 !.last_update = now]

Cutoff_cleanup_interval(now) == now - CleanupInterval

\* cutoff = now - 3600
Cutoff(now) == now - BucketMaxIdle

RecentBuckets(buckets, cutoff) ==
  [k \in {c \in DOMAIN buckets : buckets[c].last_update > cutoff} |-> buckets[k]]

cleanup_old_buckets(l, now) ==
  IF now - l.last_cleanup < CleanupInterval
  THEN l
  ELSE [l EXCEPT !.minute_buckets = RecentBuckets(@, Cutoff(now)),
                 !.hour_buckets = RecentBuckets(@, Cutoff(now)),
                 !.last_cleanup = now]

\* the client's two buckets are looked up (and made when missing) and refilled
Refilled(l, client_id, now) ==
  [l EXCEPT !.minute_buckets =
              SetBucket(@, client_id,
                        refill_bucket(GetBucket(@, client_id, NewMinuteBucket(l, now)), now)),
            !.hour_buckets =
              SetBucket(@, client_id,
                        refill_bucket(GetBucket(@, client_id, NewHourBucket(l, now)), now))]

\* int((1 - bucket.tokens) / bucket.refill_rate) + 1
RetryAfter(bucket) == ((Token - bucket.tokens) \div bucket.refill_rate) + 1

Consumed(l, client_id) ==
  [l EXCEPT !.minute_buckets[client_id].tokens = @ - Token,
            !.hour_buckets[client_id].tokens = @ - Token]

\* the decision of check_rate_limit on the refilled buckets
Decide(l, client_id) ==
  IF l.minute_buckets[client_id].tokens < Token
  THEN [limiter |-> l, allowed |-> FALSE,
        retry_after |-> RetryAfter(l.minute_buckets[client_id])]
  ELSE IF l.hour_buckets[client_id].tokens < Token
  THEN [limiter |-> l, allowed |-> FALSE,
        retry_after |-> RetryAfter(l.hour_buckets[client_id])]
  ELSE [limiter |-> Consumed(l, client_id), allowed |-> TRUE, retry_after |-> None]

\* check_rate_limit without the periodic cleanup
CheckBuckets(l, client_id, now) == Decide(Refilled(l, client_id, now), client_id)

check_rate_limit(l, client_id, now) ==
  CheckBuckets(cleanup_old_buckets(l, now), client_id, now)

\* int(bucket.tokens)
WholeTokens(bucket) == bucket.tokens \div Token

get_remaining(l, client_id, now) ==
  LET refilled == Refilled(l, client_id, now)
  IN [limiter |-> refilled,
      remaining_minute |-> WholeTokens(refilled.minute_buckets[client_id]),
      remaining_hour |-> WholeTokens(refilled.hour_buckets[client_id]),
      limit_minute |-> l.requests_per_minute,
      limit_hour |-> l.requests_per_hour]

\* reset(client_id)
reset(l, client_id) ==
  [l EXCEPT !.minute_buckets = DelBucket(@, client_id),
            !.hour_buckets = DelBucket(@, client_id)]

\* reset(None)
reset_all(l) == [l EXCEPT !.minute_buckets = <<>>, !.hour_buckets = <<>>]

(***************************************************************************)
(* Calls of one limiter, one after the other (SpecLimiter).  The record    *)
(* reference keeps, next to the limiter: shadow, a limiter that gets the   *)
(* same calls but never cleans its buckets up; admitted, for each client   *)
(* the times of its admitted requests of the last hour since its last      *)
(* reset; advances, how often the clock was advanced.                      *)
(***************************************************************************)
NoAdmissions == [c \in Clients |-> <<>>]

SelectAfter(times, t) == SelectSeq(times, LAMBDA x : x > t)

CheckRateLimit(client_id) ==
  LET out == check_rate_limit(limiter, client_id, clock)
      ref == CheckBuckets(reference.shadow, client_id, clock)
  IN /\ pc = "limiter"
     /\ limiter' = out.limiter
     /\ reference' =
          [reference EXCEPT
             !.shadow = ref.limiter,
             !.admitted[client_id] = IF out.allowed THEN Append(@, clock) ELSE @]
     /\ UNCHANGED <<clock, uploads, tasks, checkpoints>>

GetRemaining(client_id) ==
  LET out == get_remaining(limiter, client_id, clock)
      ref == get_remaining(reference.shadow, client_id, clock)
  IN /\ pc = "limiter"
     /\ limiter' = out.limiter
     /\ reference' =
          [reference EXCEPT
             !.shadow = ref.limiter]
     /\ UNCHANGED <<clock, uploads, tasks, checkpoints>>

Reset(client_id) ==
  /\ pc = "limiter"
  /\ limiter' = reset(limiter, client_id)
  /\ reference' =
       [reference EXCEPT
          !.shadow = reset(@, client_id),
          !.admitted[client_id] = <<>>]
  /\ UNCHANGED <<clock, uploads, tasks, checkpoints>>

ResetAll ==
  /\ pc = "limiter"
  /\ limiter' = reset_all(limiter)
  /\ reference' =
       [reference EXCEPT
          !.shadow = reset_all(@),
          !.admitted = NoAdmissions]
  /\ UNCHANGED <<clock, uploads, tasks, checkpoints>>

\* time passes between two calls
AdvanceTime(seconds) ==
  /\ pc = "limiter"
  /\ reference.advances < MaxAdvances
  /\ clock' = clock + seconds
  /\ reference' =
       [reference EXCEPT
          !.admitted = [c \in Clients |-> SelectAfter(@[c], clock + seconds - SecondsPerHour)],
          !.advances = @ + 1]
  /\ UNCHANGED <<limiter, uploads, tasks, checkpoints>>

InitLimiter ==
  /\ WorkflowIdle /\ CallIdle
  /\ pc = "limiter"
  /\ clock = 0
  /\ uploads = <<>>
  /\ tasks = <<>>
  /\ checkpoints = <<>>
  /\ \E requests_per_minute \in 1..MaxRate, requests_per_hour \in 1..MaxRate,
        burst_size \in BurstSizes :
       /\ limiter = RateLimiter(requests_per_minute, requests_per_hour, burst_size, 0)
       /\ reference = [shadow |-> limiter, admitted |-> NoAdmissions,
                       advances |-> 0]

NextLimiter ==
  /\ \/ \E c \in Clients : CheckRateLimit(c)
     \/ \E c \in Clients : GetRemaining(c)
     \/ \E c \in Clients : Reset(c)
     \/ ResetAll
     \/ \E seconds \in TimeSteps : AdvanceTime(seconds)
  /\ UNCHANGED <<workflow_vars, pc, call_vars>>

SpecLimiter == InitLimiter /\ [][NextLimiter]_vars

(***************************************************************************)
(* Racing check_rate_limit calls of one limiter (SpecLock).  Each thread   *)
(* makes one call; no time passes.  A call takes the lock, cleans up and   *)
(* refills the buckets of its client, tests them, and either returns the   *)
(* denial or takes the tokens and returns; the lock is released on return. *)
(* The limiter has admitted some calls of client_a before the race;        *)
(* reference keeps the limiter as it was when the race began.              *)
(***************************************************************************)
Threads == 1..MaxThreads

NewCall(client_id) ==
  [client_id |-> client_id, pc |-> "call", allowed |-> None, retry_after |-> None]

RECURSIVE AfterChecks(_, _, _, _)
\* the limiter after n check_rate_limit calls of a client at one time
AfterChecks(l, client_id, now, n) ==
  IF n = 0 THEN l
  ELSE AfterChecks(check_rate_limit(l, client_id, now).limiter, client_id, now, n - 1)

LockIsFree_always(l) == TRUE

\* with self._lock: the thread waits until no thread holds the lock
LockIsFree(l) == l.lock = Unlocked

Acquire(t) ==
  /\ pc = "threads"
  /\ tasks[t].pc = "call"
  /\ LockIsFree(limiter)
  /\ limiter' = [limiter EXCEPT !.lock = <<t>>]
  /\ tasks' = [tasks EXCEPT ![t].pc = "locked"]
  /\ UNCHANGED <<clock, uploads, checkpoints, reference>>

\* the cleanup, the lookup of the two buckets and their refill
RefillBuckets(t) ==
  /\ pc = "threads"
  /\ tasks[t].pc = "locked"
  /\ limiter' = Refilled(cleanup_old_buckets(limiter, clock), tasks[t].client_id, clock)
  /\ tasks' = [tasks EXCEPT ![t].pc = "refilled"]
  /\ UNCHANGED <<clock, uploads, checkpoints, reference>>

\* the two tests of the tokens: the call returns the denial, or goes on
TestBuckets(t) ==
  LET out == Decide(limiter, tasks[t].client_id)
  IN /\ pc = "threads"
     /\ tasks[t].pc = "refilled"
     /\ IF out.allowed
        THEN /\ tasks' = [tasks EXCEPT ![t].pc = "consume"]
             /\ UNCHANGED limiter
        ELSE /\ tasks' = [tasks EXCEPT ![t].pc = "done", ![t].allowed = FALSE,
                                       ![t].retry_after = out.retry_after]
             /\ limiter' = [limiter EXCEPT !.lock = Unlocked]
     /\ UNCHANGED <<clock, uploads, checkpoints, reference>>

\* the tokens are taken and the call returns True, None
Consume(t) ==
  /\ pc = "threads"
  /\ tasks[t].pc = "consume"
  /\ limiter' = [Consumed(limiter, tasks[t].client_id) EXCEPT !.lock = Unlocked]
  /\ tasks' = [tasks EXCEPT ![t].pc = "done", ![t].allowed = TRUE]
  /\ UNCHANGED <<clock, uploads, checkpoints, reference>>

InitLock ==
  /\ WorkflowIdle /\ CallIdle
  /\ pc = "threads"
  /\ clock = 0
  /\ uploads = <<>>
  /\ checkpoints = <<>>
  /\ \E requests_per_minute \in 1..MaxRate, requests_per_hour \in 1..MaxRate,
        burst_size \in BurstSizes, used \in 0..MaxRate, clients \in [Threads -> Clients] :
       /\ used <= Min(requests_per_minute, requests_per_hour)
       /\ limiter = AfterChecks(RateLimiter(requests_per_minute, requests_per_hour,
                                            burst_size, 0), "client_a", 0, used)
       /\ tasks = [t \in Threads |-> NewCall(clients[t])]
       /\ reference = [initial |-> limiter]

NextLock ==
  /\ \/ \E t \in Threads : Acquire(t)
     \/ \E t \in Threads : RefillBuckets(t)
     \/ \E t \in Threads : TestBuckets(t)
     \/ \E t \in Threads : Consume(t)
  /\ UNCHANGED <<workflow_vars, pc, call_vars>>

SpecLock == InitLock /\ [][NextLock]_vars

(***************************************************************************)
(* Properties of the workflow run (Spec).                                  *)
(***************************************************************************)
StageOrder ==
  <<"planning", "image_description", "image_generation", "html_generation", "file_storage">>

\* the i-th event is the event of the i-th stage that ran
IsStageEvent(i) == i \in 1..Len(events) /\ events[i].kind = "stage"

\* C1: once a stage has returned status "failed", no later stage body runs
\* and every later event and state of the run has status "failed"
C1_FailedIsTerminal ==
  \A i \in 1..Len(events) :
    (IsStageEvent(i) /\ events[i].status = "failed")
      => /\ Len(ran) = i
         /\ state.status = "failed"
         /\ \A j \in i..Len(events) : events[j].status = "failed"

C1_Witness ==
  /\ pc = "done"
  /\ Len(ran) = 2
  /\ IsStageEvent(2) /\ events[2].status = "failed"

\* C3: the stage bodies run in the fixed order, each after its predecessor
\* has returned without failure, none skipped or repeated
C3_FixedOrder ==
  /\ Len(ran) <= Len(StageOrder)
  /\ \A i \in 1..Len(ran) : ran[i] = StageOrder[i]
  /\ \A i \in 2..Len(ran) : IsStageEvent(i - 1) /\ events[i - 1].status # "failed"
  /\ state.status = "completed" => ran = StageOrder

C3_Witness == ran = StageOrder /\ pc = "done" /\ state.status = "completed"

\* C4: over the events of one request the progress value never decreases,
\* the failure events included
C4_ProgressNeverDecreases ==
  \A i \in 1..Len(events) : \A j \in i..Len(events) :
    events[i].progress <= events[j].progress

\* the run has ended, every stage body ran and none took its except branch
AllStagesSucceeded == pc = "done" /\ ran = StageOrder /\ state.error = <<>>

\* the run has ended and a stage body took its except branch
SomeStageFailed == pc = "done" /\ state.error # <<>>

\* one event per stage in stage order, then the one final event with the data
HappyStream ==
  /\ Len(events) = Len(StageOrder) + 1
  /\ \A i \in 1..Len(StageOrder) :
       /\ events[i].kind = "stage"
       /\ events[i].keys = {"step", "status", "progress", "message", "error"}
       /\ events[i].progress = <<25, 40, 65, 90, 100>>[i]
       /\ events[i].step = <<"image_description", "image_generation", "html_generation",
                             "file_storage", "complete">>[i]
       /\ events[i].status # "failed"
  /\ LET last == events[Len(events)]
     IN /\ last.kind = "result"
        /\ last.status = "completed"
        /\ "data" \in last.keys
        /\ Len(last.data) = 1
        /\ last.data[1].pages = state.pages /\ ~last.data[1].pages.none
        /\ last.data[1].image_urls = state.image_urls /\ ~last.data[1].image_urls.none
        /\ last.data[1].plan = state.plan /\ last.data[1].plan # JNull
        /\ last.data[1].saved_files = state.saved_files /\ ~last.data[1].saved_files.none
        /\ last.data[1].folder_path = "folder"

\* the stream ends with its only event of status "failed"
LastEventReportsFailed ==
  /\ events # <<>>
  /\ events[Len(events)].status = "failed"
  /\ \A i \in 1..(Len(events) - 1) : events[i].status # "failed"

\* C5 as stated: a run whose stages all succeed sends one event per stage
\* and one final event with the data, and a run in which a stage fails ends
\* with the event that reports "failed"
C5_AsStated ==
  /\ AllStagesSucceeded => HappyStream
  /\ SomeStageFailed => LastEventReportsFailed

\* C5 as amended: a run whose stages all succeed sends one event per stage
\* and one final event with the data; an event of status "failed" is always
\* the last one, and it is sent when one of the first four stages fails; a
\* file_storage failure is sent as a "completed" stage event with error
\* set, followed by the final event
C5_StreamShape ==
  /\ AllStagesSucceeded => HappyStream
  /\ (SomeStageFailed /\ Len(ran) < Len(StageOrder)) => LastEventReportsFailed
  /\ \A i \in 1..Len(events) : events[i].status = "failed" => i = Len(events)
  /\ (SomeStageFailed /\ ran = StageOrder)
       => /\ Len(events) = Len(StageOrder) + 1
          /\ events[Len(StageOrder)].kind = "stage"
          /\ events[Len(StageOrder)].status = "completed"
          /\ events[Len(StageOrder)].error # <<>>
          /\ events[Len(events)].kind = "result"
          /\ events[Len(events)].status = "completed"

C5_Witness == SomeStageFailed /\ ran = StageOrder /\ Len(events) = 6

\* the plan was accepted by plan validation
PlanAccepted == Len(ran) >= 1 /\ IsStageEvent(1) /\ events[1].status # "failed"

\* the names of a list of pages
NamesOf(items) == {Get(items[i], <<"name">>) : i \in 1..Len(items)}

UrlOf(urls, section) ==
  urls.items[CHOOSE i \in 1..Len(urls.items) : urls.items[i].k = section].v

\* C7: after the image-generation stage image_urls has exactly the keys
\* hero, features and testimonials, whichever generation calls failed, and
\* each failing section is mapped to its static asset
C7_ThreeImageUrls ==
  Len(ran) >= 3
    => /\ IsStageEvent(3) /\ events[3].status # "failed"
       /\ ~state.image_urls.none
       /\ Len(state.image_urls.items) = 3
       /\ Keys(state.image_urls) = {"hero", "features", "testimonials"}
       /\ Len(ran) = 3 =>
            /\ Len(stage_env) = 3
            /\ stage_env[1] = "error" =>
                 UrlOf(state.image_urls, "hero") = <<"uploads", "hero_1766668485.png">>
            /\ stage_env[2] = "error" =>
                 UrlOf(state.image_urls, "features") = <<"uploads", "features_1766668478.png">>
            /\ stage_env[3] = "error" =>
                 UrlOf(state.image_urls, "testimonials")
                   = <<"uploads", "testimonials_1766668479.png">>

C7_Witness == Len(ran) = 3 /\ stage_env = <<"error", "ok", "error">>

(***************************************************************************)
(* Properties of one stage call (SpecStage).                               *)
(***************************************************************************)
\* the stage body took its except branch: it wrote a new error
Raised == pc = "returned" /\ state.error # prev.error

\* the state of a stage that reports failure at a progress value
ReportsFailed(progress) ==
  /\ state.current_step = "failed"
  /\ state.status = "failed"
  /\ state.error # <<>>
  /\ state.progress = progress

\* C2 as stated: each of the five stages, on a failure of its body, returns
\* current_step and status "failed", error set, and progress 0, 25, 40, 65,
\* 90 for planning, image_description, image_generation, html_generation,
\* file_storage
C2_AsStated ==
  Raised =>
    CASE ran[1] = "planning" -> ReportsFailed(0)
      [] ran[1] = "image_description" -> ReportsFailed(25)
      [] ran[1] = "image_generation" -> ReportsFailed(40)
      [] ran[1] = "html_generation" -> ReportsFailed(65)
      [] OTHER -> ReportsFailed(90)

\* a failure the stage cannot recover from was put to the stage
FailureInjected ==
  /\ pc = "returned"
  /\ CASE ran[1] = "planning" -> planner.raises
       [] ran[1] = "image_description" -> prev.plan = JNull
       [] ran[1] = "image_generation" -> prev.image_descriptions.none
       [] ran[1] = "html_generation" ->
            prev.image_urls.none
              \/ (stage_env # <<>> /\ HtmlFailure(stage_env[Len(stage_env)]) # "")
       [] OTHER -> stage_env = <<"error">>

\* C2 as amended: planning, image_description, image_generation and
\* html_generation, on a failure of their body, return current_step and
\* status "failed", error set, and progress 0, 25, 40, 65; file_storage
\* returns current_step "complete", status "completed", progress 100 and
\* error set to a warning
C2_StageFailure ==
  /\ FailureInjected => Raised
  /\ Raised =>
       CASE ran[1] = "planning" -> ReportsFailed(0)
         [] ran[1] = "image_description" -> ReportsFailed(25)
         [] ran[1] = "image_generation" -> ReportsFailed(40)
         [] ran[1] = "html_generation" -> ReportsFailed(65)
         [] OTHER -> /\ state.current_step = "complete"
                     /\ state.status = "completed"
                     /\ state.progress = 100
                     /\ state.error # <<>>
  /\ (pc = "returned" /\ state.current_step = "failed" /\ prev.current_step # "failed")
       => Raised /\ ran[1] # "file_storage"

C2_Witness ==
  /\ Raised
  /\ ran = <<"file_storage">>
  /\ stage_env = <<"error">>
  /\ prev.progress = 90 /\ prev.status = "in_progress"

(***************************************************************************)
(* Properties of plan parsing (SpecParse).                                 *)
(***************************************************************************)
\* C8 as stated: for a valid plan P, planning on the JSON text of P, and on
\* that text wrapped in prose with a json fenced block, yields P
C8_AsStated ==
  (pc = "returned" /\ planner.form \in {"raw", "json_fence"}
     /\ IsDict(planner.value) /\ HasKey(planner.value, <<"pages">>)
     /\ IsList(Get(planner.value, <<"pages">>))
     /\ Get(planner.value, <<"pages">>).kids # <<>>)
    => /\ state.status = "in_progress"
       /\ state.plan = planner.value

\* C9: when the verbatim parse, the fenced block and the brace scan all
\* fail, planning returns in_progress at progress 25 with the default plan
\* of the pages home, about, contact and the image sections hero, features,
\* testimonials
C9_DefaultPlan ==
  (pc = "returned" /\ ~planner.raises /\ ParsePlan(planner.text).strategy = 4)
    => /\ state.status = "in_progress"
       /\ state.current_step = "image_description"
       /\ state.progress = 25
       /\ state.error = <<>>
       /\ IsDict(state.plan)
       /\ HasKey(state.plan, <<"pages">>)
       /\ Len(Get(state.plan, <<"pages">>).kids) = 3
       /\ [i \in 1..3 |-> Get(Get(state.plan, <<"pages">>).kids[i], <<"name">>)]
            = <<Word("home"), Word("about"), Word("contact")>>
       /\ HasKey(state.plan, <<"image_sections">>)
       /\ Get(state.plan, <<"image_sections">>)
            = JArr(<<Word("hero"), Word("features"), Word("testimonials")>>)

C9_Witness ==
  /\ pc = "returned"
  /\ planner.text = <<"{", "q", "pages">>
  /\ state.progress = 25

\* the value is not an object, has no pages, or its pages is no list or empty
NotAPlan(v) ==
  \/ v.t # "obj"
  \/ ~HasKey(v, <<"pages">>)
  \/ Get(v, <<"pages">>).t # "arr"
  \/ Get(v, <<"pages">>).kids = <<>>

\* C10: when a parsing strategy succeeds with a value that is not an object,
\* has no pages key, or has a pages value that is no list or an empty list,
\* planning returns status "failed" and no plan, the default plan included,
\* is stored
C10_InvalidPlanFails ==
  (pc = "returned" /\ ~planner.raises
     /\ ParsePlan(planner.text).strategy \in 1..3
     /\ NotAPlan(ParsePlan(planner.text).plan))
    => /\ state.status = "failed"
       /\ state.current_step = "failed"
       /\ state.progress = 0
       /\ state.error # <<>>
       /\ state.plan = JNull

C10_Witness ==
  /\ pc = "returned"
  /\ planner.form = "embedded"
  /\ planner.value = PagesPlan(<<>>)
  /\ ParsePlan(planner.text).strategy = 3
  /\ state.status = "failed"

(***************************************************************************)
(* Properties of the image download (SpecImages).                          *)
(***************************************************************************)
\* C11: a downloaded image is accepted (written to the uploads directory
\* and returned as the local URL) only if its bytes are non-empty, at most
\* 10 MB, and begin with a PNG, JPEG, GIF or WEBP signature
C11_AcceptedOnlyIfImage ==
  \A t \in DOMAIN tasks :
    tasks[t].pc = "returned"
      => /\ tasks[t].bytes.size > 0
         /\ tasks[t].bytes.size <= 10485760
         /\ DetectedFormat(tasks[t].bytes.head) \in {"PNG", "JPEG", "GIF", "WEBP"}

\* C12: no two image-generation tasks, in one run or in concurrent runs,
\* write the same filename of the uploads directory
C12_UniqueFilenames ==
  \A t1 \in DOMAIN tasks : \A t2 \in DOMAIN tasks :
    (t1 # t2 /\ tasks[t1].filename # NoFile /\ tasks[t2].filename # NoFile)
      => tasks[t1].filename # tasks[t2].filename

(***************************************************************************)
(* Properties of the joins of the image stages (SpecJoin).                 *)
(***************************************************************************)
\* C13: in both image stages, for every order of completion and every
\* subset of failing tasks, each section's entry of the result map comes
\* from that section's own task, its value on success and its fallback on
\* failure, and every task runs to completion whatever the others did
C13_JoinedByKey ==
  pc = "joined" =>
    /\ \A i \in DOMAIN tasks : tasks[i].pc = "done"
    /\ ~result.none
    /\ Len(result.items) = 3
    /\ \A i \in 1..3 :
         /\ result.items[i].k = <<"hero", "features", "testimonials">>[i]
         /\ call.stage = "image_description" =>
              result.items[i].v =
                IF tasks[i].outcome = "ok" THEN <<"generated", result.items[i].k>>
                ELSE <<"fallback", result.items[i].k>>
         /\ call.stage = "image_generation" =>
              result.items[i].v =
                IF tasks[i].outcome = "ok" THEN <<"uploads", result.items[i].k, "generated">>
                ELSE <<"uploads", static_images(result.items[i].k)>>

C13_Witness ==
  /\ pc = "joined"
  /\ call.stage = "image_generation"
  /\ tasks[3].finished = 1 /\ tasks[1].finished = 3
  /\ tasks[1].outcome = "ok" /\ tasks[2].outcome = "error" /\ tasks[3].outcome = "ok"

(***************************************************************************)
(* Properties of WebsiteUpdater.forward (SpecUpdate).                      *)
(***************************************************************************)
NoChangesSummary == <<"No changes were made. Please check your request.">>

\* C14: when the editor returns its input unchanged for the global CSS and
\* for every page, forward returns no updated page and a summary saying that
\* no changes were made.
C14_NoChangeIsEmpty ==
  (/\ pc = "returned"
   /\ ~result.raised
   /\ call.css_edit = "unchanged"
   /\ \A n \in PageNames : call.page_edits[n] = "unchanged")
    => /\ result.updated_pages.items = <<>>
       /\ result.changes_summary = NoChangesSummary

\* C15: with a global CSS, every page whose css is the empty string or absent
\* is edited with the global CSS as context, and no returned page has a null
\* css.
C15_EmptyCssUsesGlobal ==
  (pc = "returned" /\ ~result.raised /\ CssTruthy(call.global_css))
    => /\ \A i \in 1..Len(result.calls) :
            PageOf(call.pages, result.calls[i].page).css = <<>>
              => result.calls[i].css = call.global_css
       /\ \A i \in 1..Len(result.updated_pages.items) :
            result.updated_pages.items[i].v.css # NoneText

Conforming(v) ==
  /\ IsDict(v)
  /\ HasKey(v, <<"update_type">>)
  /\ HasKey(v, <<"target_pages">>)
  /\ HasKey(v, <<"requires_css_update">>)

\* C16: forward returns without raising for every classifier outcome, and a
\* classifier answer that is not an object with the expected fields is
\* replaced by the keyword fallback.
C16_NeverRaises ==
  pc = "returned"
    => /\ ~result.raised
       /\ (call.classifier.shape = "json" /\ ~Conforming(call.classifier.value)
             /\ call.pages # <<>>)
            => result.analysis = KeywordFallback(call.pages, call.edit_request).analysis

UsedKeywordFallback ==
  /\ pc = "returned"
  /\ call.classifier.shape = "text"
  /\ call.pages # <<>>
  /\ ~result.raised

UpdateType == Get(result.analysis, <<"update_type">>)
TargetPages == Get(result.analysis, <<"target_pages">>)
RequiresCssUpdate == Get(result.analysis, <<"requires_css_update">>)

\* C17 as stated: the keyword fallback answers "both" exactly when the
\* request has a styling keyword and a page name.
C17_AsStated ==
  UsedKeywordFallback
    => LET is_global == IsGlobal(call.edit_request)
           named == NamedPages(call.pages, call.edit_request)
       IN /\ (is_global /\ named = <<>>)
               => UpdateType = Word("global_css") /\ TargetPages = JArr(<<>>)
          /\ (~is_global /\ named # <<>>)
               => /\ UpdateType = Word("specific_pages")
                  /\ TargetPages = Names(named)
                  /\ RequiresCssUpdate = JFalse
          /\ UpdateType = Word("both") <=> (is_global /\ named # <<>>)
          /\ (~is_global /\ named = <<>>)
               => TargetPages = Names(<<call.pages[1].k>>)

\* C17: with at least one page, the keyword fallback answers global_css with
\* no target for a styling keyword and no page name, specific_pages with the
\* named pages and no CSS update for a page name and no styling keyword, and
\* "both" with a CSS update otherwise: with the named pages when both signals
\* are there, with the first available page when neither is.  A page name is
\* a signal when it occurs, as written, in the lower-cased request.
C17_KeywordFallback ==
  UsedKeywordFallback
    => LET is_global == IsGlobal(call.edit_request)
           named == NamedPages(call.pages, call.edit_request)
       IN /\ (is_global /\ named = <<>>)
               => /\ UpdateType = Word("global_css")
                  /\ TargetPages = JArr(<<>>)
                  /\ RequiresCssUpdate = JTrue
          /\ (~is_global /\ named # <<>>)
               => /\ UpdateType = Word("specific_pages")
                  /\ TargetPages = Names(named)
                  /\ RequiresCssUpdate = JFalse
          /\ (is_global /\ named # <<>>)
               => /\ UpdateType = Word("both")
                  /\ TargetPages = Names(named)
                  /\ RequiresCssUpdate = JTrue
          /\ (~is_global /\ named = <<>>)
               => /\ UpdateType = Word("both")
                  /\ TargetPages = Names(<<call.pages[1].k>>)
                  /\ RequiresCssUpdate = JTrue

C17_Witness ==
  /\ UsedKeywordFallback
  /\ call.edit_request = <<"make", " ", "it", " ", "nicer">>
  /\ Len(call.pages) = 2
  /\ UpdateType = Word("both")
  /\ TargetPages = Names(<<call.pages[1].k>>)

\* the names the analysis targets
TargetNames ==
  LET t == DictGet(result.analysis, <<"target_pages">>)
  IN IF t.t # "arr" THEN {}
     ELSE {t.kids[i].s : i \in {j \in 1..Len(t.kids) : t.kids[j].t = "str"}}

UpdatedNames == {result.updated_pages.items[i].k : i \in 1..Len(result.updated_pages.items)}

\* C18: the pages forward returns are targets; when the update type is
\* specific_pages or both, they are exactly the targets that are in pages and
\* whose edit call did not fail.
C18_OnlyFailedTargetsLeftOut ==
  (pc = "returned" /\ ~result.raised)
    => /\ UpdatedNames \subseteq TargetNames
       /\ DictGet(result.analysis, <<"update_type">>) \in {Word("specific_pages"), Word("both")}
            => UpdatedNames = {n \in TargetNames :
                                 PageIn(call.pages, n) /\ call.page_edits[n] # "raise"}

C18_Witness ==
  /\ pc = "returned"
  /\ ~result.raised
  /\ TargetNames = {<<"about">>, <<"home">>}
  /\ Len(call.pages) = 2
  /\ call.page_edits[<<"about">>] = "raise"
  /\ UpdatedNames = {<<"home">>}

(***************************************************************************)
(* Properties of the edit endpoint (SpecEdit).                             *)
(***************************************************************************)
\* C19: for a non-empty HTML and an edit request of at least 5 characters,
\* when the gateway returns a document that begins with a doctype or an html
\* element the endpoint answers 200 with the edited HTML and its style blocks
\* extracted into css, and not with an error or with the canned fallback.
C19_SuccessfulEditReturned ==
  (/\ pc = "returned"
   /\ Strip(call.html) # <<>>
   /\ Len(Strip(call.edit_request)) >= 5
   /\ ~call.gateway.raises
   /\ StartsAsHtml(CleanModifiedHtml(call.gateway.text)))
    => /\ result.status = 200
       /\ result.html # edit_fallback_html
       /\ result.css = StyleCss(call.gateway.text)
       /\ ~HasToken(result.html, "style")

(***************************************************************************)
(* Properties of save_complete_website (SpecSave).                         *)
(***************************************************************************)
HasFile(folder, name) == \E i \in 1..Len(folder) : folder[i].k = name
FileOf(folder, name) == folder[CHOOSE i \in 1..Len(folder) : folder[i].k = name].v

\* C20: after a successful save of a non-empty set of pages the folder holds
\* one <page>.html per page with that page's content, one style.css, an
\* index.html that redirects to home (or to the first page), and a
\* metadata.json with the plan as given, the description, the page list, the
\* image URLs and a creation timestamp.
C20_FolderLayout ==
  (pc = "returned" /\ call.pages # <<>> /\ ~result.raised)
    => /\ \A i \in 1..Len(call.pages) :
            /\ HasFile(result.folder, HtmlFile(call.pages[i].k))
            /\ FileOf(result.folder, HtmlFile(call.pages[i].k))
                 \notin {RedirectHtml(p) : p \in SavePageNames}
       /\ HasFile(result.folder, StyleCssFile)
       /\ HasFile(result.folder, IndexHtmlFile)
       /\ FileOf(result.folder, IndexHtmlFile)
            \in {RedirectHtml("home"), RedirectHtml(call.pages[1].k)}
       /\ HasFile(result.folder, MetadataFile)
       /\ FileOf(result.folder, MetadataFile).plan = call.plan
       /\ FileOf(result.folder, MetadataFile).description = call.description
       /\ FileOf(result.folder, MetadataFile).pages = [i \in 1..Len(call.pages) |-> call.pages[i].k]
       /\ FileOf(result.folder, MetadataFile).created_at # <<>>

(***************************************************************************)
(* Further properties of one stage call (SpecStage).                       *)
(***************************************************************************)
IsWorkflowState(s) ==
  /\ DOMAIN s = DOMAIN initial_state
  /\ s.status \in {"in_progress", "completed", "failed"}
  /\ s.current_step \in Nodes \cup {"complete", "failed"}
  /\ s.progress \in 0..100

\* C23: whatever the input state (plan, image_descriptions, image_urls or
\* pages None included) and whatever the gateways and the file system do,
\* each of the five stage functions returns a WorkflowState; a failure put to
\* the stage is reported in its error field.
C23_StageReturnsState ==
  pc = "returned"
    => /\ IsWorkflowState(state)
       /\ FailureInjected => state.error # <<>>
       /\ (ran[1] = "html_generation" /\ (prev.plan = JNull \/ prev.image_urls.none))
            => state.status = "failed"
       /\ (ran[1] = "file_storage" /\ prev.pages.none) => state.error # <<>>

C23_Witness ==
  /\ pc = "returned"
  /\ ran = <<"html_generation">>
  /\ prev.plan = JNull /\ prev.image_urls.none /\ prev.pages.none
  /\ IsWorkflowState(state)
  /\ state.status = "failed"

TrackingFields == {"current_step", "status", "error", "progress", "progress_message"}

\* the fields a stage writes when it succeeds
DeltaFields(node) ==
  CASE node = "planning" -> {"plan", "plan_json"}
    [] node = "image_description" -> {"image_descriptions"}
    [] node = "image_generation" -> {"image_urls"}
    [] node = "html_generation" -> {"pages"}
    [] OTHER -> {"folder_path", "saved_files"}

\* C24: a stage returns its input state with only its own delta fields and
\* the tracking fields changed, and with only the tracking fields changed
\* when it fails; description is never changed and html generation leaves
\* the plan as it was.
C24_FrameOfStage ==
  pc = "returned"
    => /\ DOMAIN state = DOMAIN prev
       /\ state.description = prev.description
       /\ \A f \in DOMAIN prev \ (DeltaFields(ran[1]) \cup TrackingFields) : state[f] = prev[f]
       /\ state.error # prev.error
            => \A f \in DOMAIN prev \ TrackingFields : state[f] = prev[f]
       /\ ran[1] = "html_generation" => state.plan = prev.plan

C24_Witness ==
  /\ pc = "returned"
  /\ ran = <<"html_generation">>
  /\ stage_env = <<"ok_plain", "raise">>
  /\ state.status = "failed"
  /\ prev.plan # JNull /\ state.plan = prev.plan
  /\ ~prev.image_descriptions.none /\ state.image_descriptions = prev.image_descriptions
  /\ ~prev.pages.none /\ state.pages = prev.pages

\* the section lookup over the plan went through, so the three gateway
\* calls were made
DescriptionCallsMade ==
  /\ pc = "returned"
  /\ ran = <<"image_description">>
  /\ IsDict(prev.plan)
  /\ ~IterItems(PlanPages(prev.plan)).raises
  /\ \A i \in 1..Len(Sections) :
       ~OwnerLookupRaises(IterItems(PlanPages(prev.plan)).items, 1, Sections[i])

\* C25: when at least one of the three description calls succeeds, the
\* stage succeeds with progress 40, image_descriptions has exactly the keys
\* hero, features and testimonials, and each failing section holds its
\* canned fallback description.
C25_PartialFailureSucceeds ==
  (DescriptionCallsMade /\ \E i \in 1..Len(Sections) : stage_env[i] = "ok")
    => /\ state.error = prev.error
       /\ state.status = prev.status
       /\ state.current_step = "image_generation"
       /\ state.progress = 40
       /\ ~state.image_descriptions.none
       /\ Len(state.image_descriptions.items) = 3
       /\ Keys(state.image_descriptions) = {"hero", "features", "testimonials"}
       /\ \A i \in 1..Len(Sections) :
            state.image_descriptions.items[i] =
              KV(Sections[i], IF stage_env[i] = "ok" THEN <<"generated", Sections[i]>>
                              ELSE <<"fallback", Sections[i]>>)

C25_Witness ==
  /\ DescriptionCallsMade
  /\ stage_env = <<"error", "ok", "error">>
  /\ state.progress = 40
  /\ state.image_descriptions.items[1].v = <<"fallback", "hero">>

(***************************************************************************)
(* Further properties of WebsiteUpdater.forward (SpecUpdate).              *)
(***************************************************************************)
\* C26: the editor is invoked on the global CSS only when update_type is
\* global_css or both, and on a page only when update_type is specific_pages
\* or both and the page is a target; with update_type specific_pages the
\* global CSS is not changed.
C26_EditsOnlySelectedScope ==
  (pc = "returned" /\ ~result.raised)
    => LET update_type == DictGet(result.analysis, <<"update_type">>)
       IN /\ result.css_called => update_type \in {Word("global_css"), Word("both")}
          /\ \A i \in 1..Len(result.calls) :
               /\ update_type \in {Word("specific_pages"), Word("both")}
               /\ result.calls[i].page \in TargetNames
          /\ update_type = Word("specific_pages") => result.updated_global_css = NoneText

(***************************************************************************)
(* Properties of concurrent requests (SpecThreads).                        *)
(***************************************************************************)
\* C28: no two requests run under the same checkpoint thread id, and the
\* final state a request reads back is the state of its own run.
C28_OwnThreadId ==
  /\ \A r1 \in Requests : \A r2 \in Requests :
       (r1 # r2 /\ tasks[r1].thread_id # NoThread /\ tasks[r2].thread_id # NoThread)
         => tasks[r1].thread_id # tasks[r2].thread_id
  /\ \A r \in Requests :
       tasks[r].pc = "done" => tasks[r].final = [request |-> r, step |-> Cardinality(Nodes)]

(***************************************************************************)
(* Properties of the rate limiter (SpecLimiter).                           *)
(***************************************************************************)
\* the requests of a client admitted after time t (and since its last reset)
AdmittedSince(client_id, t) == Len(SelectAfter(reference.admitted[client_id], t))

\* C21: in the 60 seconds that end now check_rate_limit has admitted at most
\* requests_per_minute requests of each client, and in the 3600 seconds that
\* end now at most requests_per_hour, however the requests were timed.
C21_WindowLimits ==
  \A c \in Clients :
    /\ AdmittedSince(c, clock - SecondsPerMinute) <= limiter.requests_per_minute
    /\ AdmittedSince(c, clock - SecondsPerHour) <= limiter.requests_per_hour

\* the requests of a client admitted at this instant (and since its last reset)
AdmittedNow(client_id) ==
  Len(SelectSeq(reference.admitted[client_id], LAMBDA t : t = clock))

\* C27: with no time elapsing between them, at most burst_size requests in
\* a row of one client are admitted.
C27_BurstLimit ==
  \A c \in Clients : AdmittedNow(c) <= limiter.burst_size

\* the tokens a client has now in its minute and its hour bucket: what the
\* refill of its buckets, made full when missing, gives it
Tokens(l, client_id, now) ==
  <<refill_bucket(GetBucket(l.minute_buckets, client_id, NewMinuteBucket(l, now)), now).tokens,
    refill_bucket(GetBucket(l.hour_buckets, client_id, NewHourBucket(l, now)), now).tokens>>

BucketsOf(l) ==
  {l.minute_buckets[c] : c \in DOMAIN l.minute_buckets}
    \cup {l.hour_buckets[c] : c \in DOMAIN l.hour_buckets}

\* a call for one client left the stored buckets of another client alone, or
\* dropped them without changing the tokens the other client has
OthersKept(before, after, client_id) ==
  \A d \in Clients \ {client_id} :
    /\ Tokens(after, d, clock) = Tokens(before, d, clock)
    /\ d \in DOMAIN after.minute_buckets =>
         /\ d \in DOMAIN before.minute_buckets
         /\ after.minute_buckets[d] = before.minute_buckets[d]
    /\ d \in DOMAIN after.hour_buckets =>
         /\ d \in DOMAIN before.hour_buckets
         /\ after.hour_buckets[d] = before.hour_buckets[d]

\* C29: every bucket of the limiter holds between 0 tokens and its capacity;
\* and whichever call is made next, get_remaining and a denied
\* check_rate_limit leave the client the tokens it has, an admitted
\* check_rate_limit takes one token from each of its buckets, and a call for
\* one client does not change the tokens of another client.
C29_BucketsBounded ==
  /\ \A bucket \in BucketsOf(limiter) :
       0 <= bucket.tokens /\ bucket.tokens <= bucket.capacity * Token
  /\ \A c \in Clients :
       LET checked == check_rate_limit(limiter, c, clock)
           remaining == get_remaining(limiter, c, clock)
           has == Tokens(limiter, c, clock)
       IN /\ Tokens(remaining.limiter, c, clock) = has
          /\ Tokens(checked.limiter, c, clock) =
               IF checked.allowed THEN <<has[1] - Token, has[2] - Token>> ELSE has
          /\ OthersKept(limiter, checked.limiter, c)
          /\ OthersKept(limiter, remaining.limiter, c)
          /\ OthersKept(limiter, reset(limiter, c), c)

\* a client has spent its tokens at this instant, so that its next check is
\* denied, while another client holds buckets it has used before
C29_Witness ==
  \E c \in Clients, d \in Clients :
    /\ c # d
    /\ clock > 0
    /\ AdmittedNow(c) > 0
    /\ ~check_rate_limit(limiter, c, clock).allowed
    /\ d \in DOMAIN limiter.minute_buckets
    /\ limiter.minute_buckets[d].last_update < clock
    /\ limiter.minute_buckets[d].tokens < limiter.minute_buckets[d].capacity * Token

\* C30: whichever client calls check_rate_limit next, the limiter, which
\* drops the buckets that were idle for an hour, answers as the limiter that
\* got the same calls and never dropped a bucket: the same allow or deny
\* and the same retry_after.
C30_CleanupKeepsDecisions ==
  \A c \in Clients :
    LET out == check_rate_limit(limiter, c, clock)
        ref == CheckBuckets(reference.shadow, c, clock)
    IN out.allowed = ref.allowed /\ out.retry_after = ref.retry_after

\* the cleanup has dropped the used buckets of a client, which the limiter
\* without cleanup still holds
C30_Witness ==
  \E c \in Clients :
    /\ c \notin DOMAIN limiter.minute_buckets
    /\ c \notin DOMAIN limiter.hour_buckets
    /\ c \in DOMAIN reference.shadow.hour_buckets
    /\ reference.shadow.hour_buckets[c].tokens < Token
    /\ limiter.last_cleanup = clock

(***************************************************************************)
(* Properties of racing check_rate_limit calls (SpecLock).                 *)
(***************************************************************************)
ThreadsOf(client_id) == {t \in Threads : tasks[t].client_id = client_id}

AdmittedCalls(client_id) ==
  {t \in ThreadsOf(client_id) : tasks[t].pc = "done" /\ tasks[t].allowed = TRUE}

\* the whole tokens a client had in both buckets when the race began
WholeTokensAtStart(client_id) ==
  LET had == Tokens(reference.initial, client_id, clock)
  IN Min(had[1], had[2]) \div Token

\* C22: the racing calls are serialized.  At every moment the buckets of a
\* client hold the tokens they held when the race began less one token,
\* in the minute and in the hour bucket, for each of its calls that was
\* admitted, so that a denied call takes none; and when the n calls of a
\* client whose buckets held k whole tokens have all returned, exactly k of
\* them (all n when n <= k) were admitted.
C22_RacingCallsSerialized ==
  \A c \in Clients :
    LET had == Tokens(reference.initial, c, clock)
        has == Tokens(limiter, c, clock)
        admitted == Cardinality(AdmittedCalls(c))
    IN /\ has = <<had[1] - admitted * Token, had[2] - admitted * Token>>
       /\ (\A t \in ThreadsOf(c) : tasks[t].pc = "done") =>
            admitted = Min(Cardinality(ThreadsOf(c)), WholeTokensAtStart(c))

\* more calls of one client than it had whole tokens have raced and have all
\* returned, some admitted and some denied
C22_Witness ==
  \E c \in Clients :
    /\ \A t \in Threads : tasks[t].pc = "done"
    /\ WholeTokensAtStart(c) >= 1
    /\ Cardinality(ThreadsOf(c)) > WholeTokensAtStart(c)
    /\ Cardinality(AdmittedCalls(c)) = WholeTokensAtStart(c)
    /\ \E t \in ThreadsOf(c) : tasks[t].allowed = FALSE
====
